---- MODULE Spec2Model ----
(***************************************************************************)
(* A model of catalyst's pipeline Classifier (classifier.py): the graph    *)
(* construction calls (eq, __ne__, isnull, notnull, the string-only        *)
(* operators, relabel, element_of), and the evaluation of the terms they   *)
(* build over one date row of a workspace array, including                 *)
(* Quantiles._compute and Relabel._compute.                                *)
(***************************************************************************)
EXTENDS Integers, Sequences, FiniteSets, TLC

(***************************************************************************)
(* Bounds of the model.                                                    *)
(***************************************************************************)
\* Assets (cells) in the one date row of the workspace of the tests' class C.
NCells == 2
\* Assets (cells) in the one date row handed to Quantiles._compute.
NAssets == 3
\* int64 classifier cells hold codes in -1..MaxCode.
MaxCode == 1
\* Quantiles input cells hold NaN or a value in 1..MaxFactor.
MaxFactor == 3
\* Quantiles is built with bins in 1..MaxBins.
MaxBins == 2
\* element_of is called with collections of at most MaxChoices elements.
MaxChoices == 2
\* the calendar's dates lie in 0..MaxDate
MaxDate == 3
\* _shift_dates is called with shift in 0..MaxShift
MaxShift == 2
\* a Position receives at most MaxOps method calls
MaxOps == 3
\* a cache file receives at most MaxCalls ensure_*_data calls
MaxCalls == 3
\* the exchange's num_candles_limit lies in 1..MaxLimit
MaxLimit == 2
\* process_bar_data runs of at most MaxChunks chunks are followed
MaxChunks == 5

(***************************************************************************)
(* Python scalars.  n is TWICE the numeric value, so that the floats -0.5, *)
(* 0.5, 1.5 are representable; s is the text of a string as a sequence of  *)
(* characters; sp marks the non-finite floats.                             *)
(***************************************************************************)
PyInt(i) == [k |-> "int", n |-> 2 * i, s |-> <<>>, sp |-> ""]
PyFloat(twice) == [k |-> "float", n |-> twice, s |-> <<>>, sp |-> ""]
PyNaN == [k |-> "float", n |-> 0, s |-> <<>>, sp |-> "nan"]
PyInf == [k |-> "float", n |-> 0, s |-> <<>>, sp |-> "inf"]
PyStr(chars) == [k |-> "str", n |-> 0, s |-> chars, sp |-> ""]
PyNone == [k |-> "NoneType", n |-> 0, s |-> <<>>, sp |-> ""]
\* An unhashable value, e.g. {'a': 1}.
PyDict == [k |-> "dict", n |-> 0, s |-> <<>>, sp |-> ""]

\* isinstance(v, Number)
IsNumber(v) == v.k \in {"int", "float"}
\* isinstance(v, int)
IsInt(v) == v.k = "int"
\* isinstance(v, (bytes, unicode))
IsString(v) == v.k = "str"
\* hash(v) succeeds
IsHashable(v) == v.k # "dict"

\* Python's a == b on these scalars: numbers compare by value whatever their
\* type (1 == 1.0), NaN equals nothing, a dict equals a dict of equal content.
PyEq(a, b) ==
    IF IsNumber(a) /\ IsNumber(b)
    THEN a.sp # "nan" /\ b.sp # "nan" /\ a.sp = b.sp /\ a.n = b.n
    ELSE a.k = b.k /\ a.s = b.s

\* int(v) for a number: truncation toward zero; NaN and infinity have no int.
IntRaises(v) ==
    IF v.sp = "nan" THEN "ValueError: cannot convert float NaN to integer"
    ELSE IF v.sp = "inf" THEN "OverflowError: cannot convert float infinity to integer"
    ELSE ""
IntOf(v) == IF v.n >= 0 THEN v.n \div 2 ELSE -((-v.n) \div 2)

\* v in collection, for a frozenset: an element that compares equal.
PyIn(v, set) == \E e \in set : PyEq(v, e)

\* frozenset(choices) of a sequence of hashable values: of several elements
\* that compare equal, the first one met is the one kept.
RECURSIVE FrozenSetUpTo(_, _)
FrozenSetUpTo(choices, i) ==
    IF i = 0 THEN {}
    ELSE LET prev == FrozenSetUpTo(choices, i - 1)
         IN IF PyIn(choices[i], prev) THEN prev ELSE prev \cup {choices[i]}
FrozenSet(choices) == FrozenSetUpTo(choices, Len(choices))

(***************************************************************************)
(* Classifiers and the terms their operators build.                        *)
(***************************************************************************)
int64_dtype == "int64"
categorical_dtype == "categorical"
\* Classifier.ALLOWED_DTYPES
ALLOWED_DTYPES == {int64_dtype, categorical_dtype}

\* The labels a categorical workspace array holds besides its missing value.
Labels == {PyStr(<<>>), PyStr(<<"a">>), PyStr(<<"a", "b">>)}

NoRelabeler == [l \in {} |-> PyNone]
NoTerm ==
    [type |-> "NoTerm", expr |-> "", other |-> 0, missing |-> 0, op |-> "",
     opargs |-> PyNone, choices |-> {}, relabeler |-> NoRelabeler]

\* NumExprFilter.create(expr.format(other=..., missing=...), binds=(self,))
NumExprFilter(expr, other, missing) ==
    [NoTerm EXCEPT !.type = "NumExprFilter", !.expr = expr,
                   !.other = other, !.missing = missing]
\* ArrayPredicate(term=self, op=op, opargs=(arg,))
ArrayPredicate(op, arg) ==
    [NoTerm EXCEPT !.type = "ArrayPredicate", !.op = op, !.opargs = arg]
\* ArrayPredicate(term=self, op=op, opargs=(choices,)), choices a frozenset
ArrayPredicateOfSet(op, choices) ==
    [NoTerm EXCEPT !.type = "ArrayPredicate", !.op = op, !.choices = choices]
NullFilter == [NoTerm EXCEPT !.type = "NullFilter"]
NotNullFilter == [NoTerm EXCEPT !.type = "NotNullFilter"]

\* What a call gives: the exception it raises ("" for none) and the term it
\* returns (NoTerm when it raises: no term is constructed).
Raise(exc) == [raised |-> exc, term |-> NoTerm]
Return(term) == [raised |-> "", term |-> term]

VacuousComparison == "ValueError: Comparison against self.missing_value"
VacuousChoices == "ValueError: Found self.missing_value in choices"
InvalidClassifierComparison == "InvalidClassifierComparison(TypeError)"
StringsOnly == "TypeError: only defined on Classifiers producing strings"
BadArgumentType == "TypeError: expected a value of type bytes or unicode"
NotHashable == "TypeError: Expected choices to be an iterable of hashable values"
NonIntChoice == "TypeError: Found non-int in choices"
NonStringChoice == "TypeError: Found non-string in choices"
ExpectedCategorical == "TypeError: Relabel() expected a value with dtype 'category'"
RelabelNotSupported == "NotImplementedError: Relabeling is not currently supported"

\* Classifier.isnull
isnull_wrong(c) == Return(NotNullFilter)
isnull(c) == Return(NullFilter)
\* Classifier.notnull
notnull(c) == Return(NotNullFilter)

\* Classifier.eq
eq_no_guard(c, other) ==
    IF IsNumber(other) # (c.dtype = int64_dtype)
    THEN Raise(InvalidClassifierComparison)
    ELSE IF IsNumber(other)
    THEN IF IntRaises(other) # "" THEN Raise(IntRaises(other))
         ELSE Return(NumExprFilter("x_0 == {other}", IntOf(other), 0))
    ELSE Return(ArrayPredicate("operator.eq", other))
eq_swapped_check(c, other) ==
    IF PyEq(other, c.missing_value) THEN Raise(VacuousComparison)
    ELSE IF IsNumber(other) = (c.dtype = int64_dtype)
    THEN Raise(InvalidClassifierComparison)
    ELSE IF IsNumber(other)
    THEN IF IntRaises(other) # "" THEN Raise(IntRaises(other))
         ELSE Return(NumExprFilter("x_0 == {other}", IntOf(other), 0))
    ELSE Return(ArrayPredicate("operator.eq", other))
eq_off_by_one(c, other) ==
    IF PyEq(other, c.missing_value) THEN Raise(VacuousComparison)
    ELSE IF IsNumber(other) # (c.dtype = int64_dtype)
    THEN Raise(InvalidClassifierComparison)
    ELSE IF IsNumber(other)
    THEN IF IntRaises(other) # "" THEN Raise(IntRaises(other))
         ELSE Return(NumExprFilter("x_0 == {other}", IntOf(other) + 1, 0))
    ELSE Return(ArrayPredicate("operator.eq", other))
eq(c, other) ==
    IF PyEq(other, c.missing_value) THEN Raise(VacuousComparison)
    ELSE IF IsNumber(other) # (c.dtype = int64_dtype)
    THEN Raise(InvalidClassifierComparison)
    ELSE IF IsNumber(other)
    THEN IF IntRaises(other) # "" THEN Raise(IntRaises(other))
         ELSE Return(NumExprFilter("x_0 == {other}", IntOf(other), 0))
    ELSE Return(ArrayPredicate("operator.eq", other))

\* Classifier.__ne__
ne_forgets_missing(c, other) ==
    IF IsNumber(other) # (c.dtype = int64_dtype)
    THEN Raise(InvalidClassifierComparison)
    ELSE IF IsNumber(other)
    THEN IF IntRaises(other) # "" THEN Raise(IntRaises(other))
         ELSE Return(NumExprFilter("((x_0 != {other}) & (x_0 != {missing}))",
                                   IntOf(other), IntOf(other)))
    ELSE Return(ArrayPredicate("operator.ne", other))
ne(c, other) ==
    IF IsNumber(other) # (c.dtype = int64_dtype)
    THEN Raise(InvalidClassifierComparison)
    ELSE IF IsNumber(other)
    THEN IF IntRaises(other) # "" THEN Raise(IntRaises(other))
         ELSE Return(NumExprFilter("((x_0 != {other}) & (x_0 != {missing}))",
                                   IntOf(other), IntOf(c.missing_value)))
    ELSE Return(ArrayPredicate("operator.ne", other))

\* string_classifiers_only = restrict_to_dtype(dtype=categorical_dtype, ...):
\* whether the decorated method may run on c.
string_classifiers_any_dtype(c) == TRUE
string_classifiers_only(c) == c.dtype = categorical_dtype

\* The names of the decorated predicates and the LabelArray method each one
\* hands to ArrayPredicate.
StringPredicates == {"startswith", "endswith", "has_substring", "matches"}
\* Classifier.startswith, endswith, has_substring, matches
string_predicate(c, method, arg) ==
    IF ~string_classifiers_only(c) THEN Raise(StringsOnly)
    ELSE IF ~IsString(arg) THEN Raise(BadArgumentType)
    ELSE Return(ArrayPredicate(method, arg))

\* Relabel.__new__(cls, term, relabeler), under expect_dtypes(term=categorical_dtype)
Relabel(c, relabeler) ==
    IF c.dtype # categorical_dtype THEN Raise(ExpectedCategorical)
    ELSE Return([NoTerm EXCEPT !.type = "Relabel", !.relabeler = relabeler])
\* Classifier.relabel
relabel(c, relabeler) ==
    IF ~string_classifiers_only(c) THEN Raise(StringsOnly)
    ELSE Relabel(c, relabeler)

\* only_contains(type_, values), for int and for (bytes, unicode)
only_contains_int(values) == \A v \in values : IsInt(v)
only_contains_string(values) == \A v \in values : IsString(v)

\* Classifier.element_of, choices a sequence of scalars
element_of_first_only(c, choices) ==
    IF \E i \in 1..Len(choices) : ~IsHashable(choices[i]) THEN Raise(NotHashable)
    ELSE LET set == FrozenSet(choices)
         IN IF PyIn(c.missing_value, set) THEN Raise(VacuousChoices)
            ELSE IF c.dtype = int64_dtype
            THEN IF only_contains_int(set)
                 THEN Return(ArrayPredicateOfSet("vectorized_is_element",
                                                 {set_v \in set : set_v = choices[1]}))
                 ELSE Raise(NonIntChoice)
            ELSE IF only_contains_string(set)
                 THEN Return(ArrayPredicateOfSet("LabelArray.element_of",
                                                 {set_v \in set : set_v = choices[1]}))
                 ELSE Raise(NonStringChoice)
element_of(c, choices) ==
    IF \E i \in 1..Len(choices) : ~IsHashable(choices[i]) THEN Raise(NotHashable)
    ELSE LET set == FrozenSet(choices)
         IN IF PyIn(c.missing_value, set) THEN Raise(VacuousChoices)
            ELSE IF c.dtype = int64_dtype
            THEN IF only_contains_int(set)
                 THEN Return(ArrayPredicateOfSet("vectorized_is_element", set))
                 ELSE Raise(NonIntChoice)
            ELSE IF only_contains_string(set)
                 THEN Return(ArrayPredicateOfSet("LabelArray.element_of", set))
                 ELSE Raise(NonStringChoice)

(***************************************************************************)
(* Evaluation of the filters over one cell of the classifier's output.     *)
(***************************************************************************)
\* The expression NumExprFilter evaluates, x_0 bound to the cell's integer.
NumExprCell(term, x_0) ==
    IF term.expr = "x_0 == {other}" THEN x_0 = term.other
    ELSE (x_0 # term.other) /\ (x_0 # term.missing)

\* LabelArray.is_missing, and is_missing(data, missing_value) for int64 data
is_missing(c, v) == PyEq(v, c.missing_value)

\* str.startswith, str.endswith, substring search on character sequences
StartsWith(text, prefix) ==
    Len(prefix) <= Len(text) /\ SubSeq(text, 1, Len(prefix)) = prefix
EndsWith(text, suffix) ==
    Len(suffix) <= Len(text)
    /\ SubSeq(text, Len(text) - Len(suffix) + 1, Len(text)) = suffix
HasSubstring(text, sub) ==
    \E i \in 0..(Len(text) - Len(sub)) : SubSeq(text, i + 1, i + Len(sub)) = sub

\* The LabelArray comparison or predicate an ArrayPredicate applies to one
\* label: a missing cell matches nothing.
LabelArrayOp(c, term, v) ==
    /\ ~is_missing(c, v)
    /\ CASE term.op = "operator.eq" -> PyEq(v, term.opargs)
         [] term.op = "operator.ne" -> ~PyEq(v, term.opargs)
         [] term.op = "startswith" -> StartsWith(v.s, term.opargs.s)
         [] term.op = "endswith" -> EndsWith(v.s, term.opargs.s)
         [] term.op = "has_substring" -> HasSubstring(v.s, term.opargs.s)
         \* a pattern without metacharacters, matched from the start
         [] term.op = "matches" -> StartsWith(v.s, term.opargs.s)
         [] term.op = "LabelArray.element_of" -> PyIn(v, term.choices)
         [] OTHER -> FALSE

\* vectorized_is_element(array, choices) at one cell
vectorized_is_element(v, choices) == PyIn(v, choices)

\* ArrayPredicate._compute at one cell
ArrayPredicateCell(c, term, v) ==
    IF term.op = "vectorized_is_element"
    THEN vectorized_is_element(v, term.choices)
    ELSE LabelArrayOp(c, term, v)

\* A Filter's value at the cell holding v.
FilterCell(c, term, v) ==
    CASE term.type = "NumExprFilter" -> NumExprCell(term, IntOf(v))
      [] term.type = "ArrayPredicate" -> ArrayPredicateCell(c, term, v)
      [] term.type = "NullFilter" -> is_missing(c, v)
      [] term.type = "NotNullFilter" -> ~is_missing(c, v)
      [] OTHER -> FALSE

(***************************************************************************)
(* Relabel._compute.                                                       *)
(***************************************************************************)
\* LabelArray.map(f) at one cell: f is not called on the missing value, and
\* an output equal to the missing value is stored as missing.
LabelArrayMap(c, f, v) ==
    IF is_missing(c, v) THEN c.missing_value
    ELSE IF PyEq(f[v], c.missing_value) THEN c.missing_value
    ELSE f[v]
\* The labels LabelArray.map(f) calls f on: the array's categories but the
\* missing value.
MapCallsOn(c, row) == {row[i] : i \in DOMAIN row} \ {c.missing_value}

\* isinstance(data, LabelArray): the workspace row of a categorical term
IsLabelArray(c) == c.dtype = categorical_dtype

\* Relabel._compute(arrays, dates, assets, mask), on a LabelArray
Relabel_compute_unmasked(c, term, row, rowmask) ==
    [i \in DOMAIN row |-> LabelArrayMap(c, term.relabeler, row[i])]
Relabel_compute(c, term, row, rowmask) ==
    LET result == [i \in DOMAIN row |-> LabelArrayMap(c, term.relabeler, row[i])]
    IN [i \in DOMAIN row |-> IF ~rowmask[i] THEN c.missing_value ELSE result[i]]

(***************************************************************************)
(* Quantiles._compute.                                                     *)
(***************************************************************************)
isnan(v) == v.sp = "nan"

\* The j-th smallest (j = 1..) of the values, twice their size as n holds
\* them, of the row's cells idx.
KthSmallest(row, idx, j) ==
    CHOOSE v \in {row[i].n : i \in idx} :
        /\ Cardinality({i \in idx : row[i].n < v}) < j
        /\ j <= Cardinality({i \in idx : row[i].n <= v})

\* pandas' quantile of linear interpolation at k/q of the row's non-NaN
\* cells idx, times q (and twice, as n).
QuantileEdge(row, idx, q, k) ==
    LET h == (Cardinality(idx) - 1) * k
        lo == KthSmallest(row, idx, (h \div q) + 1)
    IN IF h % q = 0 THEN q * lo
       ELSE q * lo + (KthSmallest(row, idx, (h \div q) + 2) - lo) * (h % q)

BinEdgesNotUnique == "ValueError: Bin edges must be unique"

\* quantiles(data, bins): qcut(row, q=bins, labels=False) along the row.  A
\* NaN cell stays NaN; another cell gets the number of the interval
\* (edge k, edge k+1] it lies in, the lowest edge included.  qcut raises when
\* two edges coincide.
quantiles(row, q) ==
    LET idx == {i \in DOMAIN row : ~isnan(row[i])}
        edge(k) == QuantileEdge(row, idx, q, k)
    IN IF idx = {} \/ \E k \in 0..(q - 1) : edge(k) = edge(k + 1)
       THEN [raised |-> BinEdgesNotUnique, row |-> <<>>]
       ELSE [raised |-> "",
             row |-> [i \in DOMAIN row |->
                 IF isnan(row[i]) THEN PyNaN
                 ELSE IF q * row[i].n = edge(0) THEN PyFloat(0)
                 ELSE PyFloat(2 * (Cardinality({k \in 0..q : edge(k) < q * row[i].n}) - 1))]]

\* where(mask, data, nan)
where_mask_forgotten(rowmask, row) == row
where(rowmask, row) == [i \in DOMAIN row |-> IF rowmask[i] THEN row[i] ELSE PyNaN]

\* Quantiles._compute(arrays, dates, assets, mask)
Quantiles_compute(c, arrays, rowmask) ==
    LET to_bin == where(rowmask, arrays[1])
        result == quantiles(to_bin, c.bins)
    IN IF result.raised # "" THEN [ready |-> FALSE, raised |-> result.raised, row |-> <<>>]
       ELSE [ready |-> TRUE, raised |-> "",
             row |-> [i \in DOMAIN to_bin |->
                 IF isnan(result.row[i]) THEN c.missing_value
                 ELSE PyInt(IntOf(result.row[i]))]]

(***************************************************************************)
(* The state: one classifier c, the inputs the engine hands its _compute,  *)
(* the date row it produced (data), the last operator call made on c with  *)
(* what it returned or raised, and the row the returned term computed.     *)
(***************************************************************************)
VARIABLES
    c,        \* the classifier: class, dtype, missing_value, params['bins']
    arrays,   \* the rows of c's inputs (Quantiles has one, class C none)
    mask,     \* the validity mask of the row
    data,     \* c's output row in the workspace, once computed
    call,     \* the last operator call on c and its argument
    term,     \* the term that call returned, NoTerm when it raised
    raised,   \* the exception that call raised, "" when it returned
    out,      \* the row the engine computed for term
    applied,  \* the labels the relabeler has been called on
    all_sessions,     \* CryptoPricingLoader._all_sessions, the calendar
    shifted,          \* the last _shift_dates call and what it returned
    raw_price_loader, \* the load_raw_arrays calls the raw reader received
    loaded,           \* the last load_adjusted_array call and its result
    position,         \* the Position object's fields
    op,               \* the last Position method call: arguments, the
                      \* position before it, what it returned or raised
    cache_file,       \* the cache file of a benchmark or treasury symbol
    calls,            \* the last ensure_*_data call made on it, and how many
                      \* were made
    ingest            \* a process_bar_data run: arguments, chunks, position
                      \* in the loop, the fetches and writes made so far

classifierVars == <<c, arrays, mask, data, call, term, raised, out, applied>>
loaderVars == <<all_sessions, shifted, raw_price_loader, loaded>>
positionVars == <<position, op>>
cacheVars == <<cache_file, calls>>
bundleVars == <<ingest>>
vars == <<classifierVars, loaderVars, positionVars, cacheVars, bundleVars>>

\* A pipeline run without a pricing loader, and without a Position.
NoShift == [called |-> FALSE]
NotLoaded == [called |-> FALSE]
NoPosition == [asset |-> ""]
NoOp == [name |-> "", count |-> 0]
NoLoader ==
    /\ all_sessions = <<>>
    /\ shifted = NoShift
    /\ raw_price_loader = <<>>
    /\ loaded = NotLoaded
NoPerformance ==
    /\ position = NoPosition
    /\ op = NoOp
\* No market data is loaded and no bundle is ingested.
NoFile == [state |-> "absent", first |-> 0, last |-> 0, mtime |-> 0, downloaded |-> FALSE]
NotIngesting == [pc |-> "idle"]
NoMarketData ==
    /\ cache_file = NoFile
    /\ calls = [count |-> 0, now |-> 0]
NoBundle == ingest = NotIngesting

Cells == 1..NCells
Assets == 1..NAssets

\* int64 classifiers of the tests' class C: codes and missing values.
Codes == {PyInt(i) : i \in -1..MaxCode}
\* Categorical classifiers: the missing value is a label or None.
CategoricalMissing == {PyStr(<<>>), PyNone}
\* Factor values handed to Quantiles.
FactorValues == {PyFloat(2 * i) : i \in 1..MaxFactor} \cup {PyNaN}

\* The scalars the comparisons are called with.
Scalars ==
    {PyInt(i) : i \in -1..(MaxCode + 1)}
    \cup {PyFloat(h) : h \in -1..(2 * MaxCode + 1)}
    \cup {PyNaN, PyInf, PyNone}
    \cup Labels
\* The elements of the collections element_of is called with.
ChoiceValues ==
    {PyInt(0), PyInt(1), PyFloat(2), PyStr(<<>>), PyStr(<<"a">>), PyNone, PyDict}
Choices == UNION {[1..n -> ChoiceValues] : n \in 0..MaxChoices}
\* The arguments of the string predicates.
StringArguments == {PyStr(<<>>), PyStr(<<"a">>), PyStr(<<"b">>), PyInt(0)}
\* The relabelers: the total functions from labels to labels or missing.
Relabelers(cl) == [Labels -> Labels \cup {cl.missing_value}]

NoCall == [method |-> "", other |-> PyNone, choices |-> <<>>, relabeler |-> NoRelabeler]
NoData == [ready |-> FALSE, raised |-> "", row |-> <<>>]
NoOut == [kind |-> "none", bools |-> <<>>, labels |-> <<>>]

\* class C(Classifier) of the tests, its output given as initial workspace.
InitC ==
    /\ \E dt \in ALLOWED_DTYPES, mv \in Codes \cup CategoricalMissing :
          /\ (dt = int64_dtype) = IsInt(mv)
          /\ c = [cls |-> "C", dtype |-> dt, missing_value |-> mv, bins |-> 0]
    /\ arrays = <<>>
    /\ \E row \in [Cells -> IF c.dtype = int64_dtype THEN Codes
                            ELSE Labels \cup {c.missing_value}] :
          data = [ready |-> TRUE, raised |-> "", row |-> row]
    /\ mask \in [Cells -> BOOLEAN]

\* Quantiles: dtype int64, missing_value -1, one input, params ('bins',).
InitQuantiles ==
    /\ \E bins \in 1..MaxBins :
          c = [cls |-> "Quantiles", dtype |-> int64_dtype,
               missing_value |-> PyInt(-1), bins |-> bins]
    /\ \E row \in [Assets -> FactorValues] : arrays = <<row>>
    /\ data = NoData
    /\ mask \in [Assets -> BOOLEAN]

NothingCalled ==
    /\ call = NoCall
    /\ term = NoTerm
    /\ raised = ""
    /\ out = NoOut
    /\ applied = {}

Init == InitC /\ NothingCalled /\ NoLoader /\ NoPerformance /\ NoMarketData /\ NoBundle

\* The engine computes c's row: Quantiles._compute over its input.
ComputeQuantiles ==
    /\ c.cls = "Quantiles"
    /\ data = NoData
    /\ data' = Quantiles_compute(c, arrays, mask)
    /\ UNCHANGED <<c, arrays, mask, call, term, raised, out, applied>>
    /\ UNCHANGED <<loaderVars, positionVars, cacheVars, bundleVars>>

\* The pipeline is built before the engine runs it: the model follows one
\* operator call on c (call = NoCall until it is made), then its evaluation.
CallEq ==
    /\ call = NoCall
    /\ \E other \in Scalars :
          /\ call' = [NoCall EXCEPT !.method = "eq", !.other = other]
          /\ term' = eq(c, other).term
          /\ raised' = eq(c, other).raised
    /\ UNCHANGED <<c, arrays, mask, data, out, applied>>
    /\ UNCHANGED <<loaderVars, positionVars, cacheVars, bundleVars>>

CallNe ==
    /\ call = NoCall
    /\ \E other \in Scalars :
          /\ call' = [NoCall EXCEPT !.method = "__ne__", !.other = other]
          /\ term' = ne(c, other).term
          /\ raised' = ne(c, other).raised
    /\ UNCHANGED <<c, arrays, mask, data, out, applied>>
    /\ UNCHANGED <<loaderVars, positionVars, cacheVars, bundleVars>>

CallIsnull ==
    /\ call = NoCall
    /\ call' = [NoCall EXCEPT !.method = "isnull"]
    /\ term' = isnull(c).term
    /\ raised' = isnull(c).raised
    /\ UNCHANGED <<c, arrays, mask, data, out, applied>>
    /\ UNCHANGED <<loaderVars, positionVars, cacheVars, bundleVars>>

CallNotnull ==
    /\ call = NoCall
    /\ call' = [NoCall EXCEPT !.method = "notnull"]
    /\ term' = notnull(c).term
    /\ raised' = notnull(c).raised
    /\ UNCHANGED <<c, arrays, mask, data, out, applied>>
    /\ UNCHANGED <<loaderVars, positionVars, cacheVars, bundleVars>>

CallStringPredicate ==
    /\ call = NoCall
    /\ \E method \in StringPredicates, arg \in StringArguments :
          /\ call' = [NoCall EXCEPT !.method = method, !.other = arg]
          /\ term' = string_predicate(c, method, arg).term
          /\ raised' = string_predicate(c, method, arg).raised
    /\ UNCHANGED <<c, arrays, mask, data, out, applied>>
    /\ UNCHANGED <<loaderVars, positionVars, cacheVars, bundleVars>>

CallRelabel ==
    /\ call = NoCall
    /\ \E f \in Relabelers(c) :
          /\ call' = [NoCall EXCEPT !.method = "relabel", !.relabeler = f]
          /\ term' = relabel(c, f).term
          /\ raised' = relabel(c, f).raised
    /\ UNCHANGED <<c, arrays, mask, data, out, applied>>
    /\ UNCHANGED <<loaderVars, positionVars, cacheVars, bundleVars>>

CallElementOf ==
    /\ call = NoCall
    /\ \E choices \in Choices :
          /\ call' = [NoCall EXCEPT !.method = "element_of", !.choices = choices]
          /\ term' = element_of(c, choices).term
          /\ raised' = element_of(c, choices).raised
    /\ UNCHANGED <<c, arrays, mask, data, out, applied>>
    /\ UNCHANGED <<loaderVars, positionVars, cacheVars, bundleVars>>

\* The engine computes the returned term over c's row.
ComputeTerm ==
    /\ term # NoTerm
    /\ data.ready
    /\ out = NoOut
    /\ IF term.type = "Relabel" /\ ~IsLabelArray(c)
       THEN /\ out' = [kind |-> RelabelNotSupported, bools |-> <<>>, labels |-> <<>>]
            /\ applied' = applied
       ELSE IF term.type = "Relabel"
       THEN /\ out' = [kind |-> "classifier", bools |-> <<>>,
                       labels |-> Relabel_compute(c, term, data.row, mask)]
            /\ applied' = MapCallsOn(c, data.row)
       ELSE /\ out' = [kind |-> "filter", labels |-> <<>>,
                       bools |-> [i \in DOMAIN data.row |->
                                     FilterCell(c, term, data.row[i])]]
            /\ applied' = applied
    /\ UNCHANGED <<c, arrays, mask, data, call, term, raised>>
    /\ UNCHANGED <<loaderVars, positionVars, cacheVars, bundleVars>>

Next ==
    \/ CallEq
    \/ CallNe
    \/ CallIsnull
    \/ CallNotnull
    \/ CallStringPredicate
    \/ CallRelabel
    \/ CallElementOf
    \/ ComputeTerm

Spec == Init /\ [][Next]_vars

\* A pipeline whose classifier is Quantiles: the engine computes its row from
\* the factor row, then the filters built on it.
InitQ == InitQuantiles /\ NothingCalled /\ NoLoader /\ NoPerformance /\ NoMarketData /\ NoBundle

NextQ ==
    \/ ComputeQuantiles
    \/ CallIsnull
    \/ CallNotnull
    \/ ComputeTerm

SpecQuantiles == InitQ /\ [][NextQ]_vars

(***************************************************************************)
(* catalyst/pipeline/loaders/crypto_pricing_loader.py.  Dates are integers *)
(* (days); a calendar is a pandas DatetimeIndex: sorted, without           *)
(* duplicates, indexed from 0, a negative index counting from its end.     *)
(***************************************************************************)
NoFurtherDataError == "NoFurtherDataError"
ValueError == "ValueError"
IndexError == "IndexError"
FirstKnownDate == "Pipeline Query requested data starting on {query_start}, but first known date is {calendar_start}"
ShiftBeforeFirst == "Pipeline Query requested data from {shift} days before {query_start}, but first known date is only {start} days earlier."
LastKnownDate == "Pipeline Query requesting data up to {query_end}, but last known date is {calendar_end}"
StartNotInCalendar == "Query start %s not in calendar"
EndNotInCalendar == "Query end %s not in calendar"

\* dates.get_loc(d): KeyError when d is not in the index, else its position.
HasLoc(dates, d) == \E i \in DOMAIN dates : dates[i] = d
get_loc(dates, d) == (CHOOSE i \in DOMAIN dates : dates[i] = d) - 1
\* dates[k]
IndexInRange(dates, k) == -Len(dates) <= k /\ k < Len(dates)
getitem(dates, k) == dates[IF k >= 0 THEN k + 1 ELSE Len(dates) + k + 1]

ShiftRaise(exc, msg) == [raised |-> exc, msg |-> msg, start |-> 0, end |-> 0]
ShiftReturn(start, end) == [raised |-> "", msg |-> "", start |-> start, end |-> end]

\* _shift_dates with the end lookup's two errors exchanged
_shift_dates_end_errors_swapped(dates, start_date, end_date, shift) ==
    IF ~HasLoc(dates, start_date)
    THEN IF start_date < getitem(dates, 0)
         THEN ShiftRaise(NoFurtherDataError, FirstKnownDate)
         ELSE ShiftRaise(ValueError, StartNotInCalendar)
    ELSE LET start == get_loc(dates, start_date)
         IN IF start < shift
            THEN ShiftRaise(NoFurtherDataError, ShiftBeforeFirst)
            ELSE IF ~HasLoc(dates, end_date)
            THEN IF end_date > getitem(dates, -1)
                 THEN ShiftRaise(ValueError, EndNotInCalendar)
                 ELSE ShiftRaise(NoFurtherDataError, LastKnownDate)
            ELSE ShiftReturn(getitem(dates, start - shift),
                             getitem(dates, get_loc(dates, end_date) - shift))

\* _shift_dates raising NoFurtherDataError for every unknown start
_shift_dates_start_always_no_further(dates, start_date, end_date, shift) ==
    IF ~HasLoc(dates, start_date)
    THEN ShiftRaise(NoFurtherDataError, FirstKnownDate)
    ELSE LET start == get_loc(dates, start_date)
         IN IF start < shift
            THEN ShiftRaise(NoFurtherDataError, ShiftBeforeFirst)
            ELSE IF ~HasLoc(dates, end_date)
            THEN IF end_date > getitem(dates, -1)
                 THEN ShiftRaise(NoFurtherDataError, LastKnownDate)
                 ELSE ShiftRaise(ValueError, EndNotInCalendar)
            ELSE ShiftReturn(getitem(dates, start - shift),
                             getitem(dates, get_loc(dates, end_date) - shift))

\* _shift_dates(dates, start_date, end_date, shift)
_shift_dates(dates, start_date, end_date, shift) ==
    IF ~HasLoc(dates, start_date)
    THEN IF start_date < getitem(dates, 0)
         THEN ShiftRaise(NoFurtherDataError, FirstKnownDate)
         ELSE ShiftRaise(ValueError, StartNotInCalendar)
    ELSE LET start == get_loc(dates, start_date)
         IN \* Make sure that shifting doesn't push us out of the calendar.
            IF start < shift
            THEN ShiftRaise(NoFurtherDataError, ShiftBeforeFirst)
            ELSE IF ~HasLoc(dates, end_date)
            THEN IF end_date > getitem(dates, -1)
                 THEN ShiftRaise(NoFurtherDataError, LastKnownDate)
                 ELSE ShiftRaise(ValueError, EndNotInCalendar)
            ELSE LET end == get_loc(dates, end_date)
                 IN IF ~IndexInRange(dates, start - shift)
                       \/ ~IndexInRange(dates, end - shift)
                    THEN ShiftRaise(IndexError, "")
                    ELSE ShiftReturn(getitem(dates, start - shift),
                                     getitem(dates, end - shift))

\* The raw reader (bundle.daily_bar_reader / minute_bar_reader): one raw
\* array per column name, over the sessions start_date..end_date.
load_raw_arrays(colnames, start_date, end_date, assets) ==
    [i \in DOMAIN colnames |->
        [column |-> colnames[i], start |-> start_date, end |-> end_date,
         assets |-> assets]]
RawRead(colnames, start_date, end_date, assets) ==
    [colnames |-> colnames, start_date |-> start_date, end_date |-> end_date,
     assets |-> assets]

\* AdjustedArray(data, mask, adjustments, missing_value); astype(dtype)
AdjustedArray(adata, amask, adjustments, missing_value) ==
    [data |-> adata, mask |-> amask, adjustments |-> adjustments,
     missing_value |-> missing_value]
astype(raw, dtype) == [raw |-> raw, dtype |-> dtype]

\* load_adjusted_array reading the requested dates themselves
load_adjusted_array_unshifted(sessions, columns, dates, assets, amask) ==
    LET s == _shift_dates(sessions, dates[1], dates[Len(dates)], 0)
    IN IF s.raised # ""
       THEN [raised |-> s.raised, msg |-> s.msg, reads |-> <<>>, out |-> {}]
       ELSE LET colnames == [i \in DOMAIN columns |-> columns[i].name]
                raw_arrays == load_raw_arrays(colnames, s.start, s.end, assets)
            IN [raised |-> "", msg |-> "",
                reads |-> <<RawRead(colnames, s.start, s.end, assets)>>,
                out |-> {<<columns[i],
                           AdjustedArray(astype(raw_arrays[i], columns[i].dtype),
                                         amask, {}, columns[i].missing_value)>> :
                         i \in DOMAIN columns}]

\* CryptoPricingLoader.load_adjusted_array(columns, dates, assets, mask) of a
\* loader whose _all_sessions is sessions: what it raises, the reads it
\* makes of the raw reader, and the dict it returns (as its items).
load_adjusted_array(sessions, columns, dates, assets, amask) ==
    LET s == _shift_dates(sessions, dates[1], dates[Len(dates)], 1)
    IN IF s.raised # ""
       THEN [raised |-> s.raised, msg |-> s.msg, reads |-> <<>>, out |-> {}]
       ELSE LET colnames == [i \in DOMAIN columns |-> columns[i].name]
                raw_arrays == load_raw_arrays(colnames, s.start, s.end, assets)
            IN [raised |-> "", msg |-> "",
                reads |-> <<RawRead(colnames, s.start, s.end, assets)>>,
                out |-> {<<columns[i],
                           AdjustedArray(astype(raw_arrays[i], columns[i].dtype),
                                         amask, {}, columns[i].missing_value)>> :
                         i \in DOMAIN columns}]

\* The calendars: the sorted sequences of the non-empty sets of known dates.
RECURSIVE SortedIndex(_)
SortedIndex(S) ==
    IF S = {} THEN <<>>
    ELSE LET m == CHOOSE x \in S : \A y \in S : y <= x
         IN Append(SortedIndex(S \ {m}), m)
KnownDates == 0..MaxDate
Calendars == {SortedIndex(S) : S \in (SUBSET KnownDates) \ {{}}}
\* The dates a query may name: the known ones, one before and one after.
QueryDates == -1..(MaxDate + 1)
Shifts == 0..MaxShift
\* The columns of the pricing dataset a pipeline may request.
close == [name |-> "close", dtype |-> "float64", missing_value |-> PyNaN]
volume == [name |-> "volume", dtype |-> "float64", missing_value |-> PyNaN]
DatasetColumns == {close, volume}
ColumnLists == {<<col>> : col \in DatasetColumns}
                 \cup {<<c1, c2>> : c1 \in DatasetColumns, c2 \in DatasetColumns}
\* The dates of a pipeline run: an increasing index of one or two dates.
DateLists == {<<d>> : d \in QueryDates}
               \cup {dd \in QueryDates \X QueryDates : dd[1] < dd[2]}
LoaderAssets == {"btc_usd"}
LoaderMasks == {<<TRUE>>, <<FALSE>>}

NoClassifier ==
    /\ c = [cls |-> "", dtype |-> int64_dtype, missing_value |-> PyInt(-1), bins |-> 0]
    /\ arrays = <<>>
    /\ mask = <<>>
    /\ data = NoData

\* A CryptoPricingLoader over some calendar, nothing requested of it yet.
InitLoader ==
    /\ all_sessions \in Calendars
    /\ shifted = NoShift
    /\ raw_price_loader = <<>>
    /\ loaded = NotLoaded
    /\ NoClassifier /\ NothingCalled /\ NoPerformance /\ NoMarketData /\ NoBundle

\* A call of _shift_dates on the calendar.  The model follows one call: a
\* direct one, or the one load_adjusted_array makes.
ShiftDates ==
    /\ ~shifted.called
    /\ ~loaded.called
    /\ \E start_date \in QueryDates, end_date \in QueryDates, shift \in Shifts :
          shifted' = [called |-> TRUE, start_date |-> start_date,
                      end_date |-> end_date, shift |-> shift,
                      ret |-> _shift_dates(all_sessions, start_date, end_date, shift)]
    /\ UNCHANGED <<all_sessions, raw_price_loader, loaded>>
    /\ UNCHANGED <<classifierVars, positionVars, cacheVars, bundleVars>>

\* The engine asks the loader for columns over dates.
LoadAdjustedArray ==
    /\ ~loaded.called
    /\ ~shifted.called
    /\ \E columns \in ColumnLists, dates \in DateLists, amask \in LoaderMasks,
          assets \in {LoaderAssets} :
          LET r == load_adjusted_array(all_sessions, columns, dates, assets, amask)
          IN /\ loaded' = [called |-> TRUE, columns |-> columns, dates |-> dates,
                           assets |-> assets, mask |-> amask,
                           raised |-> r.raised, out |-> r.out]
             /\ raw_price_loader' = raw_price_loader \o r.reads
    /\ UNCHANGED <<all_sessions, shifted>>
    /\ UNCHANGED <<classifierVars, positionVars, cacheVars, bundleVars>>

NextLoader ==
    \/ ShiftDates
    \/ LoadAdjustedArray

SpecLoader == InitLoader /\ [][NextLoader]_vars

(***************************************************************************)
(* catalyst/finance/performance/position.py.  Share counts, prices and     *)
(* cost bases are exact fractions [n, d] in lowest terms with d > 0: the   *)
(* arithmetic of the code, without the rounding error of binary floats.    *)
(***************************************************************************)
Abs(x) == IF x < 0 THEN -x ELSE x
RECURSIVE GCD(_, _)
GCD(a, b) == IF b = 0 THEN a ELSE GCD(b, a % b)
\* the fraction n/d, d > 0
Rat(n, d) == LET g == GCD(Abs(n), d) IN [n |-> n \div g, d |-> d \div g]
Zero == Rat(0, 1)
RAdd(a, b) == Rat(a.n * b.d + b.n * a.d, a.d * b.d)
RNeg(a) == [n |-> -a.n, d |-> a.d]
RSub(a, b) == RAdd(a, RNeg(b))
RMul(a, b) == Rat(a.n * b.n, a.d * b.d)
\* a / b, b # 0
RDiv(a, b) == IF b.n > 0 THEN Rat(a.n * b.d, a.d * b.n)
              ELSE Rat(-(a.n * b.d), -(a.d * b.n))
RLess(a, b) == a.n * b.d < b.n * a.d
RAbs(a) == [n |-> Abs(a.n), d |-> a.d]
\* np.floor
floor(a) == Rat(a.n \div a.d, 1)
\* round(x, 2): the nearest multiple of 0.01, a tie going to the even one
round2(a) ==
    LET p == a.n * 100
        f == p \div a.d
        rem == p - f * a.d
    IN IF 2 * rem < a.d THEN Rat(f, 100)
       ELSE IF 2 * rem > a.d THEN Rat(f + 1, 100)
       ELSE IF f % 2 = 0 THEN Rat(f, 100) ELSE Rat(f + 1, 100)
\* math.copysign(1, x), x not a negative zero
copysign1(a) == IF a.n < 0 THEN -1 ELSE 1

\* None, for a Transaction's commission, fee_currency and a last_sale_date
NoCommission == [n |-> 0, d |-> 0]
NoFeeCurrency == "None"
NoDate == 0

\* Assets: a trading pair, whose base currency is the currency of the
\* position's share count, and a second one.
btc_usd == [symbol |-> "btc_usd", base_currency |-> "btc", future |-> FALSE, multiplier |-> 1]
eth_usd == [symbol |-> "eth_usd", base_currency |-> "eth", future |-> FALSE, multiplier |-> 1]

WrongTxnAsset == "Exception: updating position with txn for a different asset"
WrongSplitAsset == "Exception: updating split with the wrong asset!"
WrongCommissionAsset == "Exception: Updating a commission for a different asset?"

\* Position.__init__(asset, amount=0, cost_basis=0.0, last_sale_price=0.0,
\* last_sale_date=None)
Position(asset, amount, cost_basis) ==
    [asset |-> asset, amount |-> amount, cost_basis |-> cost_basis,
     last_sale_price |-> Zero, last_sale_date |-> NoDate]
\* Transaction(asset, amount, dt, price, order_id, commission, fee_currency)
Transaction(asset, amount, dt, price, commission, fee_currency) ==
    [asset |-> asset, amount |-> amount, dt |-> dt, price |-> price,
     commission |-> commission, fee_currency |-> fee_currency]

MethodRaise(self, exc) == [raised |-> exc, self |-> self, ret |-> Zero]
MethodReturn(self, ret) == [raised |-> "", self |-> self, ret |-> ret]

\* handle_split paying the fraction at the cost basis before the split
handle_split_cash_at_old_basis(self, asset, ratio) ==
    IF self.asset # asset THEN MethodRaise(self, WrongSplitAsset)
    ELSE LET raw_share_count == RDiv(self.amount, ratio)
             full_share_count == floor(raw_share_count)
             fractional_share_count == RSub(raw_share_count, full_share_count)
             new_cost_basis == round2(RMul(self.cost_basis, ratio))
         IN MethodReturn([self EXCEPT !.cost_basis = new_cost_basis,
                                      !.amount = full_share_count],
                         round2(RMul(fractional_share_count, self.cost_basis)))

\* Position.handle_split(asset, ratio), ratio > 0
handle_split(self, asset, ratio) ==
    IF self.asset # asset THEN MethodRaise(self, WrongSplitAsset)
    ELSE LET raw_share_count == RDiv(self.amount, ratio)
             full_share_count == floor(raw_share_count)
             fractional_share_count == RSub(raw_share_count, full_share_count)
             new_cost_basis == round2(RMul(self.cost_basis, ratio))
         IN MethodReturn([self EXCEPT !.cost_basis = new_cost_basis,
                                      !.amount = full_share_count],
                         round2(RMul(fractional_share_count, new_cost_basis)))

\* the cost basis kept when the position is closed
cost_basis_never_reset(self, txn) ==
    LET total_shares == RAdd(self.amount, txn.amount)
    IN IF total_shares = Zero THEN self.cost_basis
       ELSE IF copysign1(self.amount) # copysign1(txn.amount)
       THEN IF RLess(RAbs(self.amount), RAbs(txn.amount))
            THEN txn.price ELSE self.cost_basis
       ELSE RDiv(RAdd(RMul(self.cost_basis, self.amount),
                      RMul(txn.amount, txn.price)), total_shares)

\* the cost basis kept when the position changes direction
cost_basis_flip_keeps(self, txn) ==
    LET total_shares == RAdd(self.amount, txn.amount)
    IN IF total_shares = Zero THEN Zero
       ELSE IF copysign1(self.amount) # copysign1(txn.amount)
       THEN self.cost_basis
       ELSE RDiv(RAdd(RMul(self.cost_basis, self.amount),
                      RMul(txn.amount, txn.price)), total_shares)

\* the average of the two prices, whatever the sizes
cost_basis_plain_average(self, txn) ==
    LET total_shares == RAdd(self.amount, txn.amount)
    IN IF total_shares = Zero THEN Zero
       ELSE IF copysign1(self.amount) # copysign1(txn.amount)
       THEN IF RLess(RAbs(self.amount), RAbs(txn.amount))
            THEN txn.price ELSE self.cost_basis
       ELSE RDiv(RAdd(self.cost_basis, txn.price), Rat(2, 1))

\* Position.update: the cost basis it leaves
update_cost_basis(self, txn) ==
    LET total_shares == RAdd(self.amount, txn.amount)
    IN IF total_shares = Zero THEN Zero
       ELSE LET prev_direction == copysign1(self.amount)
                txn_direction == copysign1(txn.amount)
            IN IF prev_direction # txn_direction
               THEN \* we're covering a short or closing a position
                    IF RLess(RAbs(self.amount), RAbs(txn.amount))
                    THEN txn.price
                    ELSE self.cost_basis
               ELSE LET prev_cost == RMul(self.cost_basis, self.amount)
                        txn_cost == RMul(txn.amount, txn.price)
                        total_cost == RAdd(prev_cost, txn_cost)
                    IN RDiv(total_cost, total_shares)

\* the last sale taken from every transaction
last_sale_of_every_txn(self, txn) ==
    [price |-> txn.price, date |-> txn.dt]

\* the last sale taken from a closing transaction too
last_sale_even_when_closed(self, txn) ==
    IF self.last_sale_date = NoDate \/ txn.dt > self.last_sale_date
    THEN [price |-> txn.price, date |-> txn.dt]
    ELSE [price |-> self.last_sale_price, date |-> self.last_sale_date]

\* Position.update: the last sale price and date it leaves
update_last_sale(self, txn) ==
    IF RAdd(self.amount, txn.amount) # Zero
       /\ (self.last_sale_date = NoDate \/ txn.dt > self.last_sale_date)
    THEN [price |-> txn.price, date |-> txn.dt]
    ELSE [price |-> self.last_sale_price, date |-> self.last_sale_date]

\* the share count without the commission
amount_ignores_commission(self, txn) == RAdd(self.amount, txn.amount)

\* Position.update: the share count it leaves
update_amount(self, txn) ==
    LET total_shares == RAdd(self.amount, txn.amount)
    IN IF txn.commission # NoCommission
          /\ txn.fee_currency = self.asset.base_currency
       THEN RSub(total_shares, txn.commission)
       ELSE total_shares

\* Position.update(txn)
update(self, txn) ==
    IF self.asset # txn.asset THEN MethodRaise(self, WrongTxnAsset)
    ELSE MethodReturn([self EXCEPT
                          !.cost_basis = update_cost_basis(self, txn),
                          !.last_sale_price = update_last_sale(self, txn).price,
                          !.last_sale_date = update_last_sale(self, txn).date,
                          !.amount = update_amount(self, txn)],
                      Zero)

\* Position.adjust_commission_cost_basis(asset, cost)
adjust_commission_cost_basis(self, asset, cost) ==
    IF asset # self.asset THEN MethodRaise(self, WrongCommissionAsset)
    ELSE IF cost = Zero THEN MethodReturn(self, Zero)
    ELSE IF self.amount = Zero THEN MethodReturn(self, Zero)
    ELSE LET prev_cost == RMul(self.cost_basis, self.amount)
             cost_to_use == IF asset.future
                            THEN RDiv(cost, Rat(asset.multiplier, 1))
                            ELSE cost
             new_cost == RAdd(prev_cost, cost_to_use)
         IN MethodReturn([self EXCEPT !.cost_basis = RDiv(new_cost, self.amount)],
                         Zero)

\* The inputs: fills of a few sizes in both directions, at two prices, at
\* two times, without commission or with a commission of half a share charged
\* in the base currency or in the quote currency.
TxnAmounts == {Rat(-15, 1), Rat(-10, 1), Rat(-4, 1), Rat(5, 1), Rat(10, 1)}
Prices == {Rat(100, 1), Rat(120, 1)}
TxnDates == {1, 2}
Commissions == {<<NoCommission, NoFeeCurrency>>, <<Rat(1, 2), "btc">>,
                <<Rat(1, 2), "usd">>}
Transactions ==
    {Transaction(btc_usd, a, dt, p, cf[1], cf[2]) :
        a \in TxnAmounts, dt \in TxnDates, p \in Prices, cf \in Commissions}
      \cup {Transaction(eth_usd, Rat(5, 1), 1, Rat(100, 1), NoCommission, NoFeeCurrency)}
Ratios == {Rat(2, 1), Rat(3, 1), Rat(1, 2)}
Costs == {Zero, Rat(10, 1)}
PositionAssets == {btc_usd, eth_usd}
\* Positions as the constructor builds them before a split.
SplitAmounts == {Rat(-10, 1), Zero, Rat(9, 2), Rat(100, 1)}
SplitCostBases == {Zero, Rat(60, 1), Rat(340, 3), Rat(10001, 100)}

Called(name, before, asset, txn, ratio, cost, r) ==
    [name |-> name, count |-> op.count + 1, before |-> before, asset |-> asset,
     txn |-> txn, ratio |-> ratio, cost |-> cost, ret |-> r.ret,
     raised |-> r.raised]
NoTxn == Transaction(btc_usd, Zero, NoDate, Zero, NoCommission, NoFeeCurrency)

\* A new Position of the trading pair.
InitPosition ==
    /\ position = Position(btc_usd, Zero, Zero)
    /\ op = NoOp
    /\ NoClassifier /\ NothingCalled /\ NoLoader /\ NoMarketData /\ NoBundle

Update ==
    /\ op.count < MaxOps
    /\ \E txn \in Transactions :
          /\ position' = update(position, txn).self
          /\ op' = Called("update", position, txn.asset, txn, Zero, Zero,
                          update(position, txn))
    /\ UNCHANGED <<classifierVars, loaderVars, cacheVars, bundleVars>>

HandleSplit ==
    /\ op.count < MaxOps
    /\ \E asset \in PositionAssets, ratio \in Ratios :
          /\ position' = handle_split(position, asset, ratio).self
          /\ op' = Called("handle_split", position, asset, NoTxn, ratio, Zero,
                          handle_split(position, asset, ratio))
    /\ UNCHANGED <<classifierVars, loaderVars, cacheVars, bundleVars>>

AdjustCommissionCostBasis ==
    /\ op.count < MaxOps
    /\ \E asset \in PositionAssets, cost \in Costs :
          /\ position' = adjust_commission_cost_basis(position, asset, cost).self
          /\ op' = Called("adjust_commission_cost_basis", position, asset, NoTxn,
                          Zero, cost,
                          adjust_commission_cost_basis(position, asset, cost))
    /\ UNCHANGED <<classifierVars, loaderVars, cacheVars, bundleVars>>

NextPosition ==
    \/ Update
    \/ HandleSplit
    \/ AdjustCommissionCostBasis

SpecPosition == InitPosition /\ [][NextPosition]_vars

\* A Position built with a share count and a cost basis, then split.
InitSplit ==
    /\ \E amount \in SplitAmounts, cost_basis \in SplitCostBases :
          position = Position(btc_usd, amount, cost_basis)
    /\ op = NoOp
    /\ NoClassifier /\ NothingCalled /\ NoLoader /\ NoMarketData /\ NoBundle

NextSplit == HandleSplit

SpecSplit == InitSplit /\ [][NextSplit]_vars

(***************************************************************************)
(* catalyst/data/loader.py: the cache of benchmark and treasury data.  A   *)
(* frame is None, empty, or has a first and a last entry (dates are        *)
(* integers); the cache file is absent, unreadable, empty or holds a       *)
(* frame, and has a modification time.  Times count half hours.            *)
(***************************************************************************)
ONE_HOUR == 2
\* loader_module.earliest_possible_date()
earliest_possible_date == 1
NoneData == [state |-> "None", first |-> 0, last |-> 0]
EmptyData == [state |-> "empty", first |-> 0, last |-> 0]
DataFrame(first, last) == [state |-> "frame", first |-> first, last |-> last]
AttributeError == "AttributeError"
OSError == "OSError"
HTTPError == "HTTPError"

\* has_data_for_dates(series_or_df, first_date, last_date): None has no
\* index, and an empty index has no first and last entry.
has_data_for_dates(frame, first_date, last_date) ==
    IF frame.state = "None" THEN [raised |-> AttributeError, ret |-> FALSE]
    ELSE IF frame.state = "empty" THEN [raised |-> IndexError, ret |-> FALSE]
    ELSE [raised |-> "",
          ret |-> frame.first <= first_date /\ frame.last >= last_date]

\* pd.DataFrame.from_csv(path) of a file that exists
from_csv(file) ==
    IF file.state = "unreadable" THEN [raised |-> ValueError, ret |-> NoneData]
    ELSE IF file.state = "empty" THEN [raised |-> "", ret |-> EmptyData]
    ELSE [raised |-> "", ret |-> DataFrame(file.first, file.last)]
\* data.to_csv(path) at time now
to_csv(frame, now) ==
    [state |-> frame.state, first |-> frame.first, last |-> frame.last,
     mtime |-> now, downloaded |-> TRUE]

\* _load_cached_data treating every file that does not cover the dates as
\* a miss
_load_cached_data_no_grace(file, first_date, last_date, now) ==
    IF file.state = "absent" THEN NoneData
    ELSE IF from_csv(file).raised # "" THEN NoneData
    ELSE LET frame == from_csv(file).ret
         IN IF frame.state = "empty" THEN NoneData
            ELSE IF has_data_for_dates(frame, first_date, last_date).ret
            THEN frame
            ELSE NoneData

\* _load_cached_data(filename, first_date, last_date, now, resource_name):
\* the frame it returns, NoneData for None; it raises nothing.
_load_cached_data(file, first_date, last_date, now) ==
    IF file.state = "absent" THEN NoneData
    ELSE IF from_csv(file).raised # "" THEN NoneData
    ELSE LET frame == from_csv(file).ret
         IN IF frame.state = "empty"
            THEN \* ValueError("File is empty."), a cache miss
                 NoneData
            ELSE IF has_data_for_dates(frame, first_date, last_date).ret
            THEN frame
            ELSE \* Don't re-download if we've successfully downloaded and
                 \* written a file in the last hour.
                 IF now - file.mtime <= ONE_HOUR THEN frame
                 ELSE NoneData

Ensured(fn, exc, ret, file, downloaded, wrote, logged, warned) ==
    [fn |-> fn, raised |-> exc, ret |-> ret, file |-> file,
     downloaded |-> downloaded, wrote |-> wrote, logged |-> logged,
     warned |-> warned]

\* ensure_benchmark_data(symbol, first_date, last_date, now, trading_day):
\* download is what get_benchmark_returns does (raises, or returns a
\* frame), write what to_csv does ("" or the error it raises).
ensure_benchmark_data(file, first_date, last_date, now, download, write) ==
    LET cached == _load_cached_data(file, first_date, last_date, now)
    IN IF cached # NoneData
       THEN Ensured("benchmark", "", cached, file, FALSE, FALSE, FALSE, FALSE)
       ELSE IF download.raised # ""
       THEN Ensured("benchmark", download.raised, NoneData, file,
                    TRUE, FALSE, TRUE, FALSE)
       ELSE IF write # ""
       THEN Ensured("benchmark", write, NoneData, file, TRUE, FALSE, TRUE, FALSE)
       ELSE LET frame == download.ret
                has == has_data_for_dates(frame, first_date, last_date)
            IN IF has.raised # ""
               THEN Ensured("benchmark", has.raised, NoneData, to_csv(frame, now),
                            TRUE, TRUE, FALSE, FALSE)
               ELSE Ensured("benchmark", "", frame, to_csv(frame, now),
                            TRUE, TRUE, FALSE, ~has.ret)

\* ensure_treasury_data(symbol, first_date, last_date, now)
ensure_treasury_data(file, first_date, last_date, now, download, write) ==
    LET first == IF first_date >= earliest_possible_date
                 THEN first_date ELSE earliest_possible_date
        cached == _load_cached_data(file, first, last_date, now)
    IN IF cached # NoneData
       THEN Ensured("treasury", "", cached, file, FALSE, FALSE, FALSE, FALSE)
       ELSE LET failed == download.raised # "" \/ write # ""
                frame == IF download.raised # "" THEN NoneData ELSE download.ret
                after == IF failed THEN file ELSE to_csv(frame, now)
                has == has_data_for_dates(frame, first, last_date)
            IN IF has.raised # ""
               THEN Ensured("treasury", has.raised, NoneData, after,
                            TRUE, ~failed, failed, FALSE)
               ELSE Ensured("treasury", "", frame, after,
                            TRUE, ~failed, failed, ~has.ret)

\* The inputs: requested ranges, frames a download may return, times.
DateRanges == {<<1, 1>>, <<1, 2>>, <<0, 2>>}
Frames == {DataFrame(1, 1), DataFrame(1, 2), DataFrame(0, 2)}
Downloads == {[raised |-> "", ret |-> f] : f \in Frames \cup {EmptyData}}
                \cup {[raised |-> HTTPError, ret |-> NoneData]}
Writes == {"", OSError}
Nows == 0..4
NotDownloaded == [raised |-> "", ret |-> NoneData]
\* The cache file before the first call: not there, or left by an earlier
\* run (unreadable, empty, or holding a frame).
CacheFiles ==
    {NoFile}
      \cup {[state |-> s, first |-> 0, last |-> 0, mtime |-> 0, downloaded |-> FALSE] :
              s \in {"unreadable", "empty"}}
      \cup {[state |-> "frame", first |-> f.first, last |-> f.last, mtime |-> m,
             downloaded |-> FALSE] : f \in Frames, m \in {0, 3}}
NoCalls == [count |-> 0, now |-> 0]

InitCache ==
    /\ cache_file \in CacheFiles
    /\ calls = NoCalls
    /\ NoClassifier /\ NothingCalled /\ NoLoader /\ NoPerformance /\ NoBundle

\* The record of a call: its arguments, the file it found, what the download
\* and the write did when they were attempted, and its outcome.
CallOf(range, now, download, write, r) ==
    [count |-> calls.count + 1, first_date |-> range[1], last_date |-> range[2],
     now |-> now, before |-> cache_file,
     download |-> IF r.downloaded THEN download ELSE NotDownloaded,
     write |-> IF r.downloaded /\ download.raised = "" THEN write ELSE "",
     result |-> r]

EnsureBenchmarkData ==
    /\ calls.count < MaxCalls
    /\ \E range \in DateRanges, now \in Nows, download \in Downloads,
          write \in Writes :
          LET r == ensure_benchmark_data(cache_file, range[1], range[2], now,
                                         download, write)
          IN /\ now >= calls.now
             /\ cache_file' = r.file
             /\ calls' = CallOf(range, now, download, write, r)
    /\ UNCHANGED <<classifierVars, loaderVars, positionVars, bundleVars>>

EnsureTreasuryData ==
    /\ calls.count < MaxCalls
    /\ \E range \in DateRanges, now \in Nows, download \in Downloads,
          write \in Writes :
          LET r == ensure_treasury_data(cache_file, range[1], range[2], now,
                                        download, write)
          IN /\ now >= calls.now
             /\ cache_file' = r.file
             /\ calls' = CallOf(range, now, download, write, r)
    /\ UNCHANGED <<classifierVars, loaderVars, positionVars, bundleVars>>

NextCache ==
    \/ EnsureBenchmarkData
    \/ EnsureTreasuryData

SpecCache == InitCache /\ [][NextCache]_vars

(***************************************************************************)
(* catalyst/exchange/exchange_bundle.py: process_bar_data.  Times are      *)
(* integers counting minutes; bar counts are fractions, as delta_periods   *)
(* is a float.                                                             *)
(***************************************************************************)
FrequencyNotSupported == "ValueError: frequency not supported"
BcolzMinuteOverlappingData == "BcolzMinuteOverlappingData"
BcolzFiveMinuteOverlappingData == "BcolzFiveMinuteOverlappingData"
\* another error of writer.write (invalid_data_behavior='raise')
WriterError == "BcolzMinuteWriterColumnMismatch"

\* the minutes of one bar of the frequency: total_seconds() / 60,
\* / 60 / 5, / 60 / 60 / 24
PeriodMinutes(data_frequency) ==
    IF data_frequency = "minute" THEN 1
    ELSE IF data_frequency = "5-minute" THEN 5
    ELSE 60 * 24
IsSupported(data_frequency) == data_frequency \in {"minute", "5-minute", "daily"}
delta_periods(data_frequency, start, end) ==
    Rat(end - start, PeriodMinutes(data_frequency))

Chunk(end, bar_count) == [end |-> end, bar_count |-> bar_count]
RECURSIVE Reversed(_)
Reversed(seq) ==
    IF seq = <<>> THEN <<>>
    ELSE Append(Reversed(Tail(seq)), Head(seq))
\* the while loop of process_bar_data
RECURSIVE ChunkLoop(_, _, _, _)
ChunkLoop(chunks, last_chunk_date, start, bar_count) ==
    IF last_chunk_date > start + bar_count
    THEN ChunkLoop(Append(chunks, Chunk(last_chunk_date, Rat(bar_count, 1))),
                   last_chunk_date - (bar_count + 1), start, bar_count)
    ELSE chunks
\* The chunks process_bar_data builds for a supported frequency.
Chunks(data_frequency, start, end, num_candles_limit) ==
    IF RLess(Rat(num_candles_limit, 1), delta_periods(data_frequency, start, end))
    THEN Reversed(ChunkLoop(<<>>, end, start, num_candles_limit))
    ELSE <<Chunk(end, delta_periods(data_frequency, start, end))>>

\* every error of the writer is raised
on_write_error_raise_all(exc) == "raise"
\* What the try around writer.write does with an error of the writer.
on_write_error(exc) ==
    IF exc \in {BcolzMinuteOverlappingData, BcolzFiveMinuteOverlappingData}
    THEN "warn"
    ELSE "raise"

\* The runs: a frequency, a range in minutes and the exchange's limit.
Frequencies == {"minute", "5-minute", "daily", "hourly"}
Starts == {0, 1}
Spans == {1, 2, 3, 5, 7, 10, 1440, 2880}
Limits == 1..MaxLimit
FetchOutcomes == {"candles", "no candles"}
WriteOutcomes == {"", BcolzMinuteOverlappingData, BcolzFiveMinuteOverlappingData,
                  WriterError}

InitBundle ==
    /\ ingest = NotIngesting
    /\ NoClassifier /\ NothingCalled /\ NoLoader /\ NoPerformance /\ NoMarketData

\* process_bar_data is called: it builds the chunks, or raises.  Runs of
\* more than MaxChunks chunks are left out.
ProcessBarData ==
    /\ ingest.pc = "idle"
    /\ \E data_frequency \in Frequencies, start \in Starts, span \in Spans,
          limit \in Limits :
          LET run == [data_frequency |-> data_frequency, start |-> start,
                      end |-> start + span, num_candles_limit |-> limit,
                      chunks |-> <<>>, i |-> 1, fetched |-> <<>>,
                      written |-> <<>>, warned |-> <<>>, raised |-> ""]
          IN IF ~IsSupported(data_frequency)
             THEN ingest' = [run EXCEPT !.raised = FrequencyNotSupported]
                              @@ [pc |-> "raised"]
             ELSE LET chunks == Chunks(data_frequency, start, start + span, limit)
                  IN /\ span <= MaxChunks * (limit + 1) + limit
                        \/ ~RLess(Rat(limit, 1), delta_periods(data_frequency, start, start + span))
                     /\ Len(chunks) <= MaxChunks
                     /\ ingest' = [run EXCEPT !.chunks = chunks]
                                    @@ [pc |-> IF chunks = <<>> THEN "done" ELSE "fetch"]
    /\ UNCHANGED <<classifierVars, loaderVars, positionVars, cacheVars>>

Advance(run) ==
    [run EXCEPT !.i = @ + 1,
                !.pc = IF run.i + 1 > Len(run.chunks) THEN "done" ELSE "fetch"]

\* for chunk in it: fetch_candles_chunk; no candles: continue
FetchChunk ==
    /\ ingest.pc = "fetch"
    /\ \E outcome \in FetchOutcomes :
          LET fetched == [ingest EXCEPT
                            !.fetched = Append(@, [chunk |-> ingest.i,
                                                   end_dt |-> ingest.chunks[ingest.i].end,
                                                   bar_count |-> ingest.chunks[ingest.i].bar_count,
                                                   outcome |-> outcome])]
          IN ingest' = IF outcome = "no candles" THEN Advance(fetched)
                       ELSE [fetched EXCEPT !.pc = "write"]
    /\ UNCHANGED <<classifierVars, loaderVars, positionVars, cacheVars>>

\* writer.write(data=data, ...) inside the try
WriteChunk ==
    /\ ingest.pc = "write"
    /\ \E exc \in WriteOutcomes :
          LET wrote == [ingest EXCEPT
                          !.written = Append(@, [chunk |-> ingest.i, raised |-> exc])]
          IN ingest' = IF exc = "" THEN Advance(wrote)
                       ELSE IF on_write_error(exc) = "warn"
                       THEN Advance([wrote EXCEPT !.warned = Append(@, ingest.i)])
                       ELSE [wrote EXCEPT !.pc = "raised", !.raised = exc]
    /\ UNCHANGED <<classifierVars, loaderVars, positionVars, cacheVars>>

NextBundle ==
    \/ ProcessBarData
    \/ FetchChunk
    \/ WriteChunk

SpecBundle == InitBundle /\ [][NextBundle]_vars

(***************************************************************************)
(* The claims.                                                             *)
(***************************************************************************)
AllHashable(choices) == \A i \in DOMAIN choices : IsHashable(choices[i])
HoldsMissing(choices) == \E i \in DOMAIN choices : PyEq(choices[i], c.missing_value)
IsFilter(t) == t.type \in {"NumExprFilter", "ArrayPredicate", "NullFilter", "NotNullFilter"}

KindMismatch == IsNumber(call.other) # (c.dtype = int64_dtype)
Compared == call.method \in {"eq", "__ne__"} /\ ~PyEq(call.other, c.missing_value)

\* C2 as stated: for other that is not the missing value, eq and != raise
\* InvalidClassifierComparison exactly when other's kind disagrees with the
\* dtype, and return a Filter otherwise.
C2_Original ==
    Compared =>
        IF KindMismatch THEN raised = InvalidClassifierComparison /\ term = NoTerm
        ELSE raised = "" /\ IsFilter(term)

\* C2 amended: for other that is not the missing value, eq and != raise
\* InvalidClassifierComparison exactly when other's kind disagrees with the
\* dtype; otherwise they return a Filter, unless other is a NaN or an
\* infinity, for which int(other) raises and no term is returned.
C2_KindMismatchRaises ==
    Compared =>
        /\ (raised = InvalidClassifierComparison) <=> KindMismatch
        /\ KindMismatch => term = NoTerm
        /\ (~KindMismatch /\ call.other.sp = "") => (raised = "" /\ IsFilter(term))
        /\ (~KindMismatch /\ call.other.sp = "nan")
              => (raised = "ValueError: cannot convert float NaN to integer"
                  /\ term = NoTerm)
        /\ (~KindMismatch /\ call.other.sp = "inf")
              => (raised = "OverflowError: cannot convert float infinity to integer"
                  /\ term = NoTerm)

\* C2 witness: a categorical classifier compared with != to a number that
\* is not its missing value: the comparison raised.
C2_Witness ==
    /\ call.method = "__ne__"
    /\ c.dtype = categorical_dtype
    /\ call.other = PyInt(1)
    /\ raised = InvalidClassifierComparison

\* C3: the Filter c.eq(other) of an int64 classifier and a number is true at
\* a cell exactly when the cell's integer equals int(other); that of a
\* categorical classifier and a string, exactly when the cell's label is
\* other.
C3_EqFilterCells ==
    (call.method = "eq" /\ raised = "" /\ out.kind = "filter") =>
        \A i \in DOMAIN data.row :
            /\ (c.dtype = int64_dtype /\ IsNumber(call.other))
                  => (out.bools[i] <=> (data.row[i].n = 2 * IntOf(call.other)))
            /\ (c.dtype = categorical_dtype /\ IsString(call.other))
                  => (out.bools[i] <=> (data.row[i] = call.other))

\* C3 witness: eq(1.5) on an int64 classifier was evaluated over a row
\* holding 1 in the first cell and another code in the second.
C3_Witness ==
    /\ call.method = "eq"
    /\ c.dtype = int64_dtype
    /\ call.other = PyFloat(3)
    /\ out.kind = "filter"
    /\ data.row[1] = PyInt(1) /\ out.bools[1]
    /\ data.row[2] # PyInt(1) /\ ~out.bools[2]

\* C4 as stated: the Filter (c != other) is true at a cell exactly when the
\* cell's value differs from other and differs from the missing value.
C4_Original ==
    (call.method = "__ne__" /\ out.kind = "filter") =>
        \A i \in DOMAIN data.row :
            out.bools[i] <=> (~PyEq(data.row[i], call.other)
                              /\ ~PyEq(data.row[i], c.missing_value))

\* C4 amended: the Filter (c != other) of an int64 classifier is true at a
\* cell exactly when the cell's integer differs from int(other), other
\* truncated toward zero, and from the missing value; that of a categorical
\* classifier, exactly when the cell's label differs from other and from the
\* missing value.  A cell holding the missing value is never not-equal.
C4_NeFilterCells ==
    (call.method = "__ne__" /\ out.kind = "filter") =>
        \A i \in DOMAIN data.row :
            /\ c.dtype = int64_dtype
                  => (out.bools[i] <=> (/\ data.row[i].n # 2 * IntOf(call.other)
                                        /\ data.row[i] # c.missing_value))
            /\ c.dtype = categorical_dtype
                  => (out.bools[i] <=> (/\ data.row[i] # call.other
                                        /\ data.row[i] # c.missing_value))
            /\ data.row[i] = c.missing_value => ~out.bools[i]

\* C4 witness: (c != 0.5) on an int64 classifier with missing value -1 was
\* evaluated over the row (0, 1): false at the 0, true at the 1.
C4_Witness ==
    /\ call.method = "__ne__"
    /\ c.missing_value = PyInt(-1)
    /\ call.other = PyFloat(1)
    /\ out.kind = "filter"
    /\ data.row = <<PyInt(0), PyInt(1)>>
    /\ out.bools = <<FALSE, TRUE>>

\* C5: isnull() is true exactly at the cells holding the missing value,
\* notnull() exactly at the others: at every cell exactly one of the two.
C5_NullPartition ==
    (call.method \in {"isnull", "notnull"} /\ out.kind = "filter") =>
        \A i \in DOMAIN data.row :
            /\ call.method = "isnull"
                  => /\ out.bools[i] <=> (data.row[i] = c.missing_value)
                     /\ out.bools[i] # FilterCell(c, notnull(c).term, data.row[i])
            /\ call.method = "notnull"
                  => /\ out.bools[i] <=> (data.row[i] # c.missing_value)
                     /\ out.bools[i] # FilterCell(c, isnull(c).term, data.row[i])

\* C5 witness: isnull() of a categorical classifier evaluated over a row with
\* a missing and a non-missing cell.
C5_Witness ==
    /\ call.method = "isnull"
    /\ c.dtype = categorical_dtype
    /\ out.kind = "filter"
    /\ data.row[1] = c.missing_value /\ out.bools[1]
    /\ data.row[2] # c.missing_value /\ ~out.bools[2]

\* C6: startswith, endswith, has_substring, matches and relabel on an int64
\* classifier raise the strings-only TypeError at the call: no term is
\* returned, nothing is computed and the relabeler is never called.
C6_StringsOnlyRaises ==
    (call.method \in StringPredicates \cup {"relabel"} /\ c.dtype = int64_dtype) =>
        /\ raised = StringsOnly
        /\ term = NoTerm
        /\ out = NoOut
        /\ applied = {}

\* C6 witness: relabel was called on an int64 classifier and raised.
C6_Witness ==
    /\ call.method = "relabel"
    /\ c.dtype = int64_dtype
    /\ raised = StringsOnly

\* Whether a choice's type is the one the dtype asks for.
MatchesDtype(v) == IF c.dtype = int64_dtype THEN IsInt(v) ELSE IsString(v)

\* C7: element_of raises TypeError when choices holds an unhashable value,
\* and when choices, not holding the missing value, holds an element whose
\* type does not match the dtype; it returns a Filter only when every
\* element matches the dtype.
C7_ChoicesTypeErrors ==
    call.method = "element_of" =>
        /\ ~AllHashable(call.choices) => raised = NotHashable
        /\ (/\ AllHashable(call.choices)
            /\ ~HoldsMissing(call.choices)
            /\ \E i \in DOMAIN call.choices : ~MatchesDtype(call.choices[i]))
              => raised \in {NonIntChoice, NonStringChoice}
        /\ raised = "" => \A i \in DOMAIN call.choices : MatchesDtype(call.choices[i])

\* C8: the Filter c.element_of(choices) is true at a cell exactly when the
\* cell's value is a member of choices; for empty choices it is false
\* everywhere.
C8_ElementOfCells ==
    (call.method = "element_of" /\ out.kind = "filter") =>
        /\ \A i \in DOMAIN data.row :
              out.bools[i] <=>
                  \E j \in DOMAIN call.choices : PyEq(data.row[i], call.choices[j])
        /\ call.choices = <<>> => \A i \in DOMAIN data.row : ~out.bools[i]

\* C8 witness: element_of(['a', 'a']) of a categorical classifier evaluated
\* over the row ('a', 'ab').
C8_Witness ==
    /\ call.method = "element_of"
    /\ call.choices = <<PyStr(<<"a">>), PyStr(<<"a">>)>>
    /\ out.kind = "filter"
    /\ data.row = <<PyStr(<<"a">>), PyStr(<<"a", "b">>)>>
    /\ out.bools = <<TRUE, FALSE>>

\* C9: a cell of c.relabel(f) is missing if the cell is masked out, missing
\* if the input cell is missing (f is not called on the missing label),
\* missing if f(label) is the missing value, and f(label) otherwise.
C9_RelabelCells ==
    (call.method = "relabel" /\ out.kind = "classifier") =>
        /\ \A i \in DOMAIN data.row :
              out.labels[i] =
                  IF ~mask[i] THEN c.missing_value
                  ELSE IF data.row[i] = c.missing_value THEN c.missing_value
                  ELSE IF call.relabeler[data.row[i]] = c.missing_value
                       THEN c.missing_value
                  ELSE call.relabeler[data.row[i]]
        /\ c.missing_value \notin applied

\* C9 witness: a relabeled row whose first cell is masked out though its
\* label maps to a label, and whose second cell is valid and maps to another
\* label than its own.
C9_Witness ==
    /\ call.method = "relabel"
    /\ out.kind = "classifier"
    /\ ~mask[1] /\ data.row[1] # c.missing_value
    /\ call.relabeler[data.row[1]] # c.missing_value
    /\ out.labels[1] = c.missing_value
    /\ mask[2] /\ data.row[2] # c.missing_value
    /\ out.labels[2] \notin {c.missing_value, data.row[2]}

\* C10: in the row Quantiles._compute returns, a cell holds the missing
\* value -1 exactly when it is masked out or its input is NaN, every other
\* cell holds an integer bin in 0..bins-1, and the input values of the
\* masked-out cells influence no cell: any input row that differs only at
\* masked-out cells gives the same output.
C10_QuantilesCells ==
    (c.cls = "Quantiles" /\ data.ready) =>
        /\ \A i \in DOMAIN data.row :
              /\ (data.row[i] = PyInt(-1)) <=> (~mask[i] \/ isnan(arrays[1][i]))
              /\ data.row[i] # PyInt(-1)
                    => /\ IsInt(data.row[i])
                       /\ IntOf(data.row[i]) \in 0..(c.bins - 1)
        /\ \A other \in [DOMAIN data.row -> FactorValues] :
              (\A i \in DOMAIN data.row : mask[i] => other[i] = arrays[1][i])
                  => Quantiles_compute(c, <<other>>, mask) = data

\* C10 witness: a computed row with a masked-out cell holding a value that,
\* were it binned, would be the row's largest, and two valid cells in
\* different bins.
C10_Witness ==
    /\ c.cls = "Quantiles"
    /\ data.ready
    /\ mask = <<TRUE, TRUE, FALSE>>
    /\ arrays[1] = <<PyFloat(2), PyFloat(4), PyFloat(6)>>
    /\ data.row = <<PyInt(0), PyInt(1), PyInt(-1)>>

(***************************************************************************)
(* The claims about _shift_dates and CryptoPricingLoader.                  *)
(***************************************************************************)
FirstDate == all_sessions[1]
LastDate == all_sessions[Len(all_sessions)]
IsSession(d) == HasLoc(all_sessions, d)
\* D_k, the session at position k of the calendar D_0..D_n
IsPosition(k) == 0 <= k /\ k < Len(all_sessions)
D(k) == all_sessions[k + 1]
Position_of(d) == get_loc(all_sessions, d)
InsideButNoSession(d) == FirstDate < d /\ d < LastDate /\ ~IsSession(d)

\* C11: for sessions start = D_i and end = D_j of the calendar with
\* i >= shift, _shift_dates returns the pair of sessions (D_{i-shift},
\* D_{j-shift}); and start = D_0 with shift = 1 raises NoFurtherDataError.
C11_ShiftedPair ==
    shifted.called =>
      /\ (IsSession(shifted.start_date) /\ IsSession(shifted.end_date)
             /\ Position_of(shifted.start_date) >= shifted.shift)
           => /\ shifted.ret.raised = ""
              /\ IsPosition(Position_of(shifted.start_date) - shifted.shift)
              /\ IsPosition(Position_of(shifted.end_date) - shifted.shift)
              /\ shifted.ret.start = D(Position_of(shifted.start_date) - shifted.shift)
              /\ shifted.ret.end = D(Position_of(shifted.end_date) - shifted.shift)
      /\ (shifted.start_date = FirstDate /\ shifted.shift = 1)
           => shifted.ret.raised = NoFurtherDataError

\* C12 as stated: NoFurtherDataError is raised whenever start_date precedes
\* the first date, or start_date's position is smaller than shift, or
\* end_date is after the last date.
C12_Original ==
    (shifted.called
       /\ \/ shifted.start_date < FirstDate
          \/ (IsSession(shifted.start_date)
                /\ Position_of(shifted.start_date) < shifted.shift)
          \/ shifted.end_date > LastDate)
      => shifted.ret.raised = NoFurtherDataError

\* C12: _shift_dates raises NoFurtherDataError exactly when start_date
\* precedes the first date, or start_date is a session whose position is
\* smaller than shift, or start_date is a session at a position of at least
\* shift and end_date is after the last date.
C12_NoFurtherData ==
    shifted.called =>
      ((shifted.ret.raised = NoFurtherDataError)
         <=> \/ shifted.start_date < FirstDate
             \/ (IsSession(shifted.start_date)
                   /\ Position_of(shifted.start_date) < shifted.shift)
             \/ (IsSession(shifted.start_date)
                   /\ Position_of(shifted.start_date) >= shifted.shift
                   /\ shifted.end_date > LastDate))

\* C12 witness: the start is a session far enough from the calendar's start,
\* the end lies after the last date, and NoFurtherDataError names the last
\* known date.
C12_Witness ==
    /\ shifted.called
    /\ IsSession(shifted.start_date)
    /\ shifted.shift = 1
    /\ Position_of(shifted.start_date) >= 1
    /\ shifted.end_date > LastDate
    /\ shifted.ret.raised = NoFurtherDataError
    /\ shifted.ret.msg = LastKnownDate

\* C13 as stated: a start_date or end_date inside the calendar's bounds that
\* is no session makes _shift_dates raise the ValueError.
C13_Original ==
    (shifted.called
       /\ (InsideButNoSession(shifted.start_date)
             \/ InsideButNoSession(shifted.end_date)))
      => shifted.ret.raised = ValueError

\* C13: _shift_dates raises the ValueError "not in calendar" exactly when
\* start_date is no session and does not precede the first date, or
\* start_date is a session at a position of at least shift and end_date is no
\* session and is not after the last date.
C13_NotInCalendar ==
    shifted.called =>
      /\ (shifted.ret.raised = ValueError /\ shifted.ret.msg = StartNotInCalendar)
           <=> (~IsSession(shifted.start_date) /\ shifted.start_date >= FirstDate)
      /\ (shifted.ret.raised = ValueError /\ shifted.ret.msg = EndNotInCalendar)
           <=> /\ IsSession(shifted.start_date)
               /\ Position_of(shifted.start_date) >= shifted.shift
               /\ ~IsSession(shifted.end_date)
               /\ shifted.end_date <= LastDate
      /\ shifted.ret.raised = ValueError
           => shifted.ret.msg \in {StartNotInCalendar, EndNotInCalendar}

\* C13 witness: the start is a session that can be shifted, the end falls in
\* a gap of the calendar, and the ValueError names the end.
C13_Witness ==
    /\ shifted.called
    /\ IsSession(shifted.start_date)
    /\ Position_of(shifted.start_date) >= shifted.shift
    /\ InsideButNoSession(shifted.end_date)
    /\ shifted.ret.raised = ValueError
    /\ shifted.ret.msg = EndNotInCalendar

ColumnsOf(columns) == {columns[i] : i \in DOMAIN columns}
\* C14: load_adjusted_array reads the raw reader once, for the sessions one
\* position before dates[0] and dates[-1], and returns for each requested
\* column exactly one AdjustedArray, with the given mask, no adjustments and
\* the column's missing value; when it raises (NoFurtherDataError of the
\* shift included) the raw reader is not called and nothing is returned.
C14_LoadAdjustedArray ==
    loaded.called =>
      LET first == loaded.dates[1]
          last == loaded.dates[Len(loaded.dates)]
      IN /\ (first < FirstDate \/ first = FirstDate)
              => loaded.raised = NoFurtherDataError
         /\ loaded.raised # "" => (raw_price_loader = <<>> /\ loaded.out = {})
         /\ (IsSession(first) /\ first # FirstDate /\ IsSession(last))
              => /\ loaded.raised = ""
                 /\ Len(raw_price_loader) = 1
                 /\ raw_price_loader[1].start_date = D(Position_of(first) - 1)
                 /\ raw_price_loader[1].end_date = D(Position_of(last) - 1)
                 /\ raw_price_loader[1].assets = loaded.assets
                 /\ raw_price_loader[1].colnames
                      = [i \in DOMAIN loaded.columns |-> loaded.columns[i].name]
         /\ loaded.raised = ""
              => /\ {item[1] : item \in loaded.out} = ColumnsOf(loaded.columns)
                 /\ \A x \in loaded.out, y \in loaded.out : x[1] = y[1] => x = y
                 /\ \A item \in loaded.out :
                       /\ item[2].mask = loaded.mask
                       /\ item[2].adjustments = {}
                       /\ item[2].missing_value = item[1].missing_value
                       /\ item[2].data.dtype = item[1].dtype
                       /\ item[2].data.raw.column = item[1].name
                       /\ item[2].data.raw.start = raw_price_loader[1].start_date
                       /\ item[2].data.raw.end = raw_price_loader[1].end_date

\* C14 witness: two columns were requested over two sessions after a gap of
\* the calendar; the reader was asked once, for the sessions before them.
C14_Witness ==
    /\ loaded.called
    /\ loaded.raised = ""
    /\ all_sessions = <<0, 2, 3>>
    /\ loaded.dates = <<2, 3>>
    /\ loaded.columns = <<close, volume>>
    /\ Len(raw_price_loader) = 1
    /\ raw_price_loader[1].start_date = 0
    /\ raw_price_loader[1].end_date = 2
    /\ Cardinality(loaded.out) = 2

(***************************************************************************)
(* The claims about Position.                                              *)
(***************************************************************************)
Updated == op.name = "update" /\ op.raised = ""
Split == op.name = "handle_split" /\ op.raised = ""
Sign(a) == IF a.n < 0 THEN -1 ELSE IF a.n > 0 THEN 1 ELSE 0
RLessEq(a, b) == a.n * b.d <= b.n * a.d
\* the transaction goes against the position and is larger than it (an
\* empty position is reversed by every transaction)
Reverses(pos, txn) ==
    /\ Sign(txn.amount) # 0
    /\ Sign(txn.amount) # Sign(pos.amount)
    /\ RLess(RAbs(pos.amount), RAbs(txn.amount))
WeightedAverage(pos, txn) ==
    RDiv(RAdd(RMul(pos.cost_basis, pos.amount), RMul(txn.price, txn.amount)),
         RAdd(pos.amount, txn.amount))
CommissionInShares(pos, txn) ==
    txn.commission # NoCommission /\ txn.fee_currency = pos.asset.base_currency

\* C15: an update whose transaction brings amount + txn.amount to zero leaves
\* cost_basis 0, whatever the cost basis before and the transaction's price.
C15_ClosedResetsCostBasis ==
    (Updated /\ RAdd(op.before.amount, op.txn.amount) = Zero)
      => position.cost_basis = Zero

\* C15 witness: a long position of 10 with cost basis 100 was sold out at 120.
C15_Witness ==
    /\ Updated
    /\ op.before.amount = Rat(10, 1)
    /\ op.before.cost_basis = Rat(100, 1)
    /\ op.txn.amount = Rat(-10, 1)
    /\ op.txn.price = Rat(120, 1)
    /\ position.cost_basis = Zero

\* C16: an update whose transaction goes against the position and is larger
\* than it sets cost_basis to the transaction's price and, the transaction
\* carrying no commission, amount to amount + txn.amount.
C16_ReversalTakesPrice ==
    (Updated /\ Reverses(op.before, op.txn))
      => /\ position.cost_basis = op.txn.price
         /\ op.txn.commission = NoCommission
              => position.amount = RAdd(op.before.amount, op.txn.amount)

\* C16 witness: 10 bought at 100 (cost basis 100), then 15 sold at 120:
\* cost basis 120, amount -5.
C16_Witness ==
    /\ Updated
    /\ op.count = 2
    /\ op.before.amount = Rat(10, 1)
    /\ op.before.cost_basis = Rat(100, 1)
    /\ op.txn.amount = Rat(-15, 1)
    /\ op.txn.price = Rat(120, 1)
    /\ op.txn.commission = NoCommission
    /\ position.cost_basis = Rat(120, 1)
    /\ position.amount = Rat(-5, 1)

\* C17 as stated: every update that neither brings the total to zero nor
\* reverses the position leaves the size-weighted average as cost basis.
C17_Original ==
    (Updated /\ RAdd(op.before.amount, op.txn.amount) # Zero
       /\ ~Reverses(op.before, op.txn))
      => position.cost_basis = WeightedAverage(op.before, op.txn)

\* C17: an update that does not bring the total to zero leaves the
\* size-weighted average as cost basis when the transaction goes the
\* position's way (or the position is empty), and leaves the cost basis
\* unchanged when the transaction goes against the position and is smaller
\* than it.
C17_AverageOrUnchanged ==
    (Updated /\ RAdd(op.before.amount, op.txn.amount) # Zero)
      => /\ (Sign(op.before.amount) = 0
               \/ Sign(op.before.amount) = Sign(op.txn.amount))
              => position.cost_basis = WeightedAverage(op.before, op.txn)
         /\ (Sign(op.before.amount) # 0
               /\ Sign(op.txn.amount) = -Sign(op.before.amount)
               /\ RLess(RAbs(op.txn.amount), RAbs(op.before.amount)))
              => position.cost_basis = op.before.cost_basis

\* C17 witness: 10 more bought at 120 on a position of 5 with cost basis
\* 100: the cost basis is 1700/15.
C17_Witness ==
    /\ Updated
    /\ op.before.amount = Rat(5, 1)
    /\ op.before.cost_basis = Rat(100, 1)
    /\ op.txn.amount = Rat(10, 1)
    /\ op.txn.price = Rat(120, 1)
    /\ position.cost_basis = Rat(340, 3)

\* C18: no method call makes last_sale_date decrease, and last_sale_price
\* and last_sale_date change only in an update whose txn.dt is later than
\* the last_sale_date before it, or when none was recorded.
C18_LastSaleMonotone ==
    op.name # "" =>
      /\ position.last_sale_date >= op.before.last_sale_date
      /\ (position.last_sale_date # op.before.last_sale_date
            \/ position.last_sale_price # op.before.last_sale_price)
           => /\ op.name = "update"
              /\ (op.before.last_sale_date = NoDate
                    \/ op.txn.dt > op.before.last_sale_date)

\* C18 witness: a fill dated 1 at another price arrives after the fill dated
\* 2 and changes the share count, not the last sale.
C18_Witness ==
    /\ Updated
    /\ op.before.last_sale_date = 2
    /\ op.txn.dt = 1
    /\ op.txn.price # op.before.last_sale_price
    /\ position.amount # op.before.amount
    /\ position.amount # Zero
    /\ position.last_sale_date = 2
    /\ position.last_sale_price = op.before.last_sale_price

\* C19: after an update amount is the old amount + txn.amount, less the
\* commission when there is one and its fee currency is the asset's base
\* currency; and the cost basis is the one the same transaction without
\* commission leaves.
C19_CommissionInShares ==
    Updated =>
      /\ position.amount
           = IF CommissionInShares(op.before, op.txn)
             THEN RSub(RAdd(op.before.amount, op.txn.amount), op.txn.commission)
             ELSE RAdd(op.before.amount, op.txn.amount)
      /\ position.cost_basis
           = update(op.before, [op.txn EXCEPT !.commission = NoCommission,
                                              !.fee_currency = NoFeeCurrency]
                   ).self.cost_basis

\* C19 witness: 10 bought at 120 on 5 shares with cost basis 100, half a
\* share of commission taken in the base currency: 14.5 shares, cost basis
\* 1700/15.
C19_Witness ==
    /\ Updated
    /\ CommissionInShares(op.before, op.txn)
    /\ op.before.amount = Rat(5, 1)
    /\ op.before.cost_basis = Rat(100, 1)
    /\ op.txn.amount = Rat(10, 1)
    /\ op.txn.price = Rat(120, 1)
    /\ position.amount = Rat(29, 2)
    /\ position.cost_basis = Rat(340, 3)

\* x is a whole number of cents at most half a cent away from y
RoundedTo2(x, y) ==
    /\ 100 % x.d = 0
    /\ RLessEq(RAbs(RSub(x, y)), Rat(1, 200))
\* C20: handle_split leaves as amount the whole number floor(amount /
\* ratio), as cost_basis cost_basis * ratio rounded to 2 decimals, and
\* returns the fraction amount/ratio - floor(amount/ratio) times the new cost
\* basis, rounded to 2 decimals.
C20_HandleSplit ==
    Split =>
      LET raw == RDiv(op.before.amount, op.ratio)
      IN /\ position.amount.d = 1
         /\ RLessEq(position.amount, raw)
         /\ RLess(raw, RAdd(position.amount, Rat(1, 1)))
         /\ RoundedTo2(position.cost_basis, RMul(op.before.cost_basis, op.ratio))
         /\ RoundedTo2(op.ret, RMul(RSub(raw, position.amount), position.cost_basis))

\* C20 witness: amount 100 at cost basis 60.0 split 3 for 1: amount 33,
\* cost basis 180.0, and 60.0 returned for the third of a share.
C20_Witness ==
    /\ Split
    /\ op.before.amount = Rat(100, 1)
    /\ op.before.cost_basis = Rat(60, 1)
    /\ op.ratio = Rat(3, 1)
    /\ position.amount = Rat(33, 1)
    /\ position.cost_basis = Rat(180, 1)
    /\ op.ret = Rat(60, 1)

(***************************************************************************)
(* The behaviour claims about the classifier guard, the shift and the      *)
(* closed position.                                                        *)
(***************************************************************************)
\* C24: every Filter that eq(other) builds on an int64 classifier, other a
\* number, is false at every cell that holds the missing value.
C24_EqFalseAtMissing ==
    (call.method = "eq" /\ c.dtype = int64_dtype /\ IsNumber(call.other)
       /\ raised = "" /\ out.kind = "filter")
      => \A i \in DOMAIN data.row :
            PyEq(data.row[i], c.missing_value) => ~out.bools[i]

\* C25: a _shift_dates call with shift >= 1 that returns, returns a start
\* earlier than start_date and an end earlier than end_date.
C25_ShiftedEarlier ==
    (shifted.called /\ shifted.shift >= 1 /\ shifted.ret.raised = "")
      => /\ shifted.ret.start < shifted.start_date
         /\ shifted.ret.end < shifted.end_date

\* C26: after any sequence of update, handle_split and
\* adjust_commission_cost_basis calls on a new Position, amount 0 comes
\* with cost_basis 0.
C26_ClosedHasNoCostBasis ==
    position.amount = Zero => position.cost_basis = Zero

\* C27: an update that brings the total to zero leaves last_sale_price and
\* last_sale_date as they were, and an update against the position that is
\* smaller than it leaves cost_basis as it was.
C27_UpdateFrame ==
    Updated =>
      /\ RAdd(op.before.amount, op.txn.amount) = Zero
           => /\ position.last_sale_price = op.before.last_sale_price
              /\ position.last_sale_date = op.before.last_sale_date
      /\ (Sign(op.before.amount) # 0
            /\ Sign(op.txn.amount) = -Sign(op.before.amount)
            /\ RLess(RAbs(op.txn.amount), RAbs(op.before.amount)))
           => position.cost_basis = op.before.cost_basis

\* C27 witness: 10 bought at 100 at time 1 are sold at 120 at time 2: the
\* last sale stays 100 at time 1.
C27_Witness ==
    /\ Updated
    /\ op.before.amount = Rat(10, 1)
    /\ op.before.last_sale_date = 1
    /\ op.before.last_sale_price = Rat(100, 1)
    /\ op.txn.amount = Rat(-10, 1)
    /\ op.txn.dt = 2
    /\ op.txn.price = Rat(120, 1)
    /\ position.last_sale_date = 1
    /\ position.last_sale_price = Rat(100, 1)

(***************************************************************************)
(* The claims about the cache of benchmark and treasury data.              *)
(***************************************************************************)
Ensuring == calls.count > 0
\* the first date _load_cached_data is asked for
CachedFirstDate ==
    IF calls.result.fn = "treasury" /\ calls.first_date < earliest_possible_date
    THEN earliest_possible_date ELSE calls.first_date
\* the file found by the call holds a frame that covers the requested dates
CacheCriteria ==
    /\ calls.before.state = "frame"
    /\ calls.before.first <= CachedFirstDate
    /\ calls.before.last >= calls.last_date
\* what _load_cached_data returned: the call returns it, or downloads
Cached == IF calls.result.downloaded THEN NoneData ELSE calls.result.ret

\* C21: _load_cached_data returns the file's frame when the file exists,
\* parses to a non-empty frame and covers first_date..last_date; it returns
\* the frame that does not cover them when the file was modified at most one
\* hour before now; in every other case (absent, unreadable, empty, or stale
\* and older) it returns None, raises nothing, and the caller downloads.
C21_LoadCachedData ==
    Ensuring =>
      /\ Cached = IF CacheCriteria
                     \/ (calls.before.state = "frame"
                           /\ calls.now - calls.before.mtime <= ONE_HOUR)
                  THEN DataFrame(calls.before.first, calls.before.last)
                  ELSE NoneData
      /\ calls.result.downloaded
           <=> ~(CacheCriteria
                   \/ (calls.before.state = "frame"
                         /\ calls.now - calls.before.mtime <= ONE_HOUR))
      /\ ~calls.result.downloaded => calls.result.raised = ""

\* C21 witness: the file holds a frame that misses the last date and was
\* modified exactly one hour before now: the call returns it, no download.
C21_Witness ==
    /\ Ensuring
    /\ calls.before.state = "frame"
    /\ calls.before.last < calls.last_date
    /\ calls.now - calls.before.mtime = ONE_HOUR
    /\ calls.result.ret = DataFrame(calls.before.first, calls.before.last)
    /\ ~calls.result.downloaded

\* C22: a call that finds a file written by an earlier call's download at
\* most one hour before its now, the file not satisfying the cache criteria,
\* attempts no download.
C22_DownloadSuppressed ==
    (Ensuring /\ calls.before.downloaded /\ ~CacheCriteria
       /\ calls.now - calls.before.mtime <= ONE_HOUR)
      => ~calls.result.downloaded

\* C23: when the download or the cache write fails with OSError, IOError or
\* HTTPError, ensure_treasury_data logs it, raises nothing and returns data;
\* ensure_benchmark_data logs it and raises it again.
C23_FailedDownload ==
    (Ensuring /\ calls.result.downloaded
       /\ (calls.download.raised # "" \/ calls.write # ""))
      => IF calls.result.fn = "treasury"
         THEN /\ calls.result.logged
              /\ calls.result.raised = ""
              /\ calls.result.ret # NoneData
         ELSE /\ calls.result.logged
              /\ calls.result.raised
                   = IF calls.download.raised # "" THEN calls.download.raised
                     ELSE calls.write

(***************************************************************************)
(* process_bar_data                                                        *)
(***************************************************************************)
Ingesting == ingest.pc # "idle" /\ IsSupported(ingest.data_frequency)
IsChunked ==
    /\ Ingesting
    /\ RLess(Rat(ingest.num_candles_limit, 1),
             delta_periods(ingest.data_frequency, ingest.start, ingest.end))
\* the window (end - bar_count periods, end] of a chunk, in minutes
WindowStart(chunk) ==
    RSub(Rat(chunk.end, 1),
         RMul(chunk.bar_count, Rat(PeriodMinutes(ingest.data_frequency), 1)))
\* the ends of the bars of the range (start, end]
BarEnds ==
    {t \in (ingest.start + 1)..ingest.end :
        (t - ingest.start) % PeriodMinutes(ingest.data_frequency) = 0}
Covers(chunk, t) == RLess(WindowStart(chunk), Rat(t, 1)) /\ t <= chunk.end

\* C28: when the range holds more periods than num_candles_limit, the loop
\* that builds the chunks ends, every chunk has bar_count equal to
\* num_candles_limit, the chunks are fetched and written in strictly
\* increasing order of their end, and the windows
\* (end - bar_count periods, end] of two chunks never overlap.
C28_ChunksDisjoint ==
    IsChunked =>
        /\ \A k \in 1..Len(ingest.chunks) :
              ingest.chunks[k].bar_count = Rat(ingest.num_candles_limit, 1)
        /\ \A j, k \in 1..Len(ingest.fetched) :
              j < k => ingest.fetched[j].end_dt < ingest.fetched[k].end_dt
        /\ \A j, k \in 1..Len(ingest.written) :
              j < k => ingest.chunks[ingest.written[j].chunk].end
                         < ingest.chunks[ingest.written[k].chunk].end
        /\ \A j, k \in 1..Len(ingest.chunks) :
              j < k => ~RLess(WindowStart(ingest.chunks[k]),
                              Rat(ingest.chunks[j].end, 1))

\* C29: for each of the frequencies minute, 5-minute and daily and every
\* start before end, the windows of the chunks cover every bar of the range.
C29_ChunksCoverRange ==
    Ingesting =>
        \A t \in BarEnds :
            \E k \in 1..Len(ingest.chunks) : Covers(ingest.chunks[k], t)

\* C30: a chunk whose fetch returns no candles is skipped without a write;
\* an overlapping-data error of the writer is logged and the ingestion goes
\* on: every chunk is still fetched in order and every chunk with candles is
\* handed to the writer once, in order.
C30_SkipAndContinue ==
    Ingesting =>
        /\ \A k \in 1..Len(ingest.fetched) : ingest.fetched[k].chunk = k
        /\ \A j, k \in 1..Len(ingest.written) :
              j < k => ingest.written[j].chunk < ingest.written[k].chunk
        /\ \A k \in 1..Len(ingest.written) :
              /\ ingest.written[k].chunk <= Len(ingest.fetched)
              /\ ingest.fetched[ingest.written[k].chunk].outcome = "candles"
              /\ ingest.written[k].raised
                    \in {BcolzMinuteOverlappingData, BcolzFiveMinuteOverlappingData}
                 => /\ ingest.written[k].chunk \in {ingest.warned[w] : w \in 1..Len(ingest.warned)}
                    /\ ingest.raised # ingest.written[k].raised
                    /\ ingest.pc = "raised" => k < Len(ingest.written)
        /\ ingest.pc = "done" =>
              /\ Len(ingest.fetched) = Len(ingest.chunks)
              /\ \A k \in 1..Len(ingest.chunks) :
                    (ingest.fetched[k].outcome = "candles")
                    <=> (\E w \in 1..Len(ingest.written) : ingest.written[w].chunk = k)
\* chunk 1 met an overlapping-data error, chunk 2 had no candles, chunk 3 was
\* written, and the ingestion is over
C30_Witness ==
    /\ Ingesting
    /\ ingest.pc = "done"
    /\ Len(ingest.chunks) >= 3
    /\ ingest.fetched[2].outcome = "no candles"
    /\ ingest.written = <<[chunk |-> 1, raised |-> BcolzFiveMinuteOverlappingData],
                          [chunk |-> 3, raised |-> ""]>>
    /\ ingest.warned = <<1>>

====
